---- MODULE Spec2Model ----
(***************************************************************************)
(* Format translation engine of kicad-lcsc-manager: the OBJ-to-WRL mesh    *)
(* encoder, the EasyEDA shape decoders and the KiCad symbol / footprint    *)
(* encoders.  Every call of a converter is one action; its input is drawn   *)
(* from a bounded set and its result is stored in the state.               *)
(***************************************************************************)
EXTENDS Integers, Sequences, FiniteSets, TLC

VARIABLES
    pc,            \* "idle" before the call, then the name of the function called
    obj_content,   \* Model3DConverter._convert_obj_to_wrl: the OBJ document
    wrl_content,   \* ... and what it returned (None or the scene document)
    shape_array,   \* the shape lines given to a decoder (dataStr.shape)
    translation,   \* the drawing origin given to a decoder (dataStr.head.x, .y)
    shapes,        \* what _parse_shapes returned
    easyeda_data,  \* convert: the EasyEDA response
    component_info,\* convert: the component metadata
    kicadmodtree_available, \* KICADMODTREE_AVAILABLE and footprint_handlers
    converted,     \* convert: raised, or the text returned and the path taken
    raw_name,      \* _get_symbol_name: the description
    sanitized_name, \* what _get_symbol_name returned
    symbol_lib_path,    \* the text of symbols/lcsc_imported.kicad_sym, or Absent
    footprint_lib_path, \* footprints.pretty: the files, each a name and a text
    model_3d_path,      \* 3dmodels: the names of the files
    sym_lib_table,      \* the text of the project's sym-lib-table, or Absent
    fp_lib_table,       \* the text of the project's fp-lib-table, or Absent
    results,            \* what import_component or save_to_library returned
    saved,              \* the saves that made the library file since it was
                        \* last absent or empty, oldest first: the response
                        \* and the metadata whose document was saved, and the
                        \* append it was saved with; a file another program
                        \* put there counts as one
    calls,              \* how many calls were made on the project
    now,                \* LCSCAPIClient: what time.time() returns, in seconds
    last_request_time,  \* LCSCAPIClient.last_request_time
    requests,           \* the HTTP requests the client sent, oldest first: the
                        \* function that sent it, when it was called and when
                        \* the request started
    config_path,        \* Config: the configuration file
    config,             \* Config._config
    got,                \* what Config.get returned, and for which key
    search_results,     \* the search dialog: self.search_results
    results_list,       \* ... the rows of the list control, top to bottom
    current_page,       \* ... self.current_page
    load_more_btn,      \* ... whether "Load More" is enabled
    sort_column,        \* ... self.sort_column
    sort_reverse,       \* ... self.sort_reverse
    selected_component  \* ... self.selected_component

wrlVars == <<obj_content, wrl_content>>

decodeVars == <<shape_array, translation, shapes>>

convertVars == <<easyeda_data, component_info, kicadmodtree_available, converted>>

nameVars == <<raw_name, sanitized_name>>

libVars ==
    <<symbol_lib_path, footprint_lib_path, model_3d_path, sym_lib_table, fp_lib_table,
      results, saved, calls>>

apiVars == <<now, last_request_time, requests>>

configVars == <<config_path, config, got>>

searchVars ==
    <<search_results, results_list, current_page, load_more_btn, sort_column,
      sort_reverse, selected_component>>

vars ==
    <<pc, wrlVars, decodeVars, convertVars, nameVars, libVars, apiVars, configVars,
      searchVars>>

\* Python's None
None == [none |-> TRUE]

\* a path at which no file exists
Absent == <<"<absent>">>

\* All sequences over S of length 0..n
SeqsUpTo(S, n) == UNION {[1..k -> S] : k \in 0..n}

(***************************************************************************)
(* Bounds of the model                                                     *)
(***************************************************************************)
NumVertices == 2    \* "v" lines of the OBJ document
MaxFaceLen  == 2    \* vertex references on one "f" line
MaxFaces    == 2    \* "f" lines after one "usemtl"
MaxGroups   == 2    \* "usemtl" segments of the document

(***************************************************************************)
(* The OBJ document.  The text is kept as its lines, each line as the list *)
(* of its space-separated tokens:                                          *)
(*   mtl    the newmtl ... endmtl blocks                                   *)
(*   v      the "v x y z" lines (coordinates in 1/100 of the OBJ unit)     *)
(*   shapes the segments that follow each "usemtl": the material name on   *)
(*          the first line, then the "f" lines (vertex references)         *)
(***************************************************************************)
ObjMaterialBlocks ==
    << << <<"newmtl", "m1">>, <<"Ka", "0.1", "0.1", "0.1">>,
          <<"Kd", "1", "0", "0">>, <<"Ks", "0.9", "0.9", "0.9">>,
          <<"endmtl">> >>,
       << <<"newmtl", "m2">>, <<"endmtl">> >> >>

ObjVertexLines == [i \in 1..NumVertices |-> <<254 * i, 127 * i, 0>>]

\* a vertex reference: 1..NumVertices are valid, NumVertices+1 is out of range
FaceRefs == 1..(NumVertices + 1)

\* "m1" and "m2" are defined by ObjMaterialBlocks, "mX" is not
FaceGroups ==
    [material : {"m1", "mX"},
     faces : SeqsUpTo(SeqsUpTo(FaceRefs, MaxFaceLen), MaxFaces)]

(***************************************************************************)
(* Model3DConverter._extract_obj_materials                                 *)
(***************************************************************************)
RECURSIVE MaterialOfLines(_, _)
MaterialOfLines(lines, material) ==
    IF lines = <<>> THEN material
    ELSE LET value == Head(lines)
             key   == IF value[1] = "Ka" THEN "ambient_color"
                      ELSE IF value[1] = "Kd" THEN "diffuse_color"
                      ELSE IF value[1] = "Ks" THEN "specular_color"
                      ELSE IF value[1] = "d" THEN "transparency"
                      ELSE ""
             val   == IF key = "transparency" THEN value[2] ELSE Tail(value)
         IN  MaterialOfLines(Tail(lines),
                 IF key = "" THEN material
                 ELSE [k \in DOMAIN material \cup {key} |->
                          IF k = key THEN val ELSE material[k]])

EmptyDict == [k \in {} |-> None]

RECURSIVE ExtractObjMaterials(_)
ExtractObjMaterials(blocks) ==
    IF blocks = <<>> THEN EmptyDict
    ELSE LET n           == Len(blocks)
             rest        == ExtractObjMaterials(SubSeq(blocks, 1, n - 1))
             match       == blocks[n]
             material_id == match[1][2]
             material    == MaterialOfLines(match, EmptyDict)
         IN  [k \in DOMAIN rest \cup {material_id} |->
                 IF k = material_id THEN material ELSE rest[k]]

(***************************************************************************)
(* Model3DConverter._extract_obj_vertices: each coordinate is divided by   *)
(* 2.54 and rounded to 4 decimals (result in 1/10000)                      *)
(***************************************************************************)
ExtractObjVertices(lines) ==
    LET RoundDiv(a, b) == (2 * a + b) \div (2 * b)
    IN  [i \in DOMAIN lines |->
            [c \in DOMAIN lines[i] |-> RoundDiv(lines[i][c] * 10000, 254)]]

(***************************************************************************)
(* Model3DConverter._convert_obj_to_wrl                                    *)
(***************************************************************************)
\* list[i] of Python: i counts from 0, a negative i counts from the end,
\* an i outside -len..len-1 raises IndexError
HasItem(list, i) == -Len(list) <= i /\ i < Len(list)

Item(list, i) == IF i >= 0 THEN list[i + 1] ELSE list[Len(list) + i + 1]

\* WalkFace without the link_dict lookup: every reference gets a new index
RECURSIVE WalkFaceNoReuse(_, _, _)
WalkFaceNoReuse(face, vertices, st) ==
    IF face = <<>> \/ st.err THEN st
    ELSE LET index == Head(face)
         IN  IF ~HasItem(vertices, index - 1)
             THEN [st EXCEPT !.err = TRUE]
             ELSE WalkFaceNoReuse(Tail(face), vertices,
                    [st EXCEPT
                       !.face_index = Append(st.face_index, st.index_counter),
                       !.points = Append(st.points, Item(vertices, index - 1)),
                       !.index_counter = st.index_counter + 1])

\* the loop over the indices of one face: link_dict, points and face_index
\* grow; err is set when vertices[index - 1] raises IndexError
RECURSIVE WalkFace(_, _, _)
WalkFace(face, vertices, st) ==
    IF face = <<>> \/ st.err THEN st
    ELSE LET index == Head(face)
         IN  IF index \notin DOMAIN st.link_dict
             THEN IF ~HasItem(vertices, index - 1)
                  THEN [st EXCEPT !.err = TRUE]
                  ELSE WalkFace(Tail(face), vertices,
                         [st EXCEPT
                            !.link_dict = [k \in DOMAIN st.link_dict \cup {index} |->
                                              IF k = index THEN st.index_counter
                                              ELSE st.link_dict[k]],
                            !.face_index = Append(st.face_index, st.index_counter),
                            !.points = Append(st.points, Item(vertices, index - 1)),
                            !.index_counter = st.index_counter + 1])
             ELSE WalkFace(Tail(face), vertices,
                    [st EXCEPT !.face_index = Append(st.face_index, st.link_dict[index])])

\* WalkFaces without the -1 that closes a face
RECURSIVE WalkFacesNoSentinel(_, _, _)
WalkFacesNoSentinel(faces, vertices, st) ==
    IF faces = <<>> \/ st.err THEN st
    ELSE LET after == WalkFace(Head(faces), vertices, [st EXCEPT !.face_index = <<>>])
         IN  IF after.err THEN after
             ELSE WalkFacesNoSentinel(Tail(faces), vertices,
                    [after EXCEPT !.coord_index = Append(after.coord_index, after.face_index)])

\* the loop over the "f" lines of one segment
RECURSIVE WalkFaces(_, _, _)
WalkFaces(faces, vertices, st) ==
    IF faces = <<>> \/ st.err THEN st
    ELSE LET after == WalkFace(Head(faces), vertices, [st EXCEPT !.face_index = <<>>])
         IN  IF after.err THEN after
             ELSE WalkFaces(Tail(faces), vertices,
                    [after EXCEPT !.coord_index =
                        Append(after.coord_index, Append(after.face_index, -1))])

GroupStart ==
    [index_counter |-> 0, link_dict |-> EmptyDict, coord_index |-> <<>>,
     points |-> <<>>, face_index |-> <<>>, err |-> FALSE]

\* InsertBeforeLast with the duplicate left out
InsertNothing(points, x) == points

\* list.insert(-1, x): x goes in front of the last element
InsertBeforeLast(points, x) ==
    SubSeq(points, 1, Len(points) - 1) \o <<x>> \o <<points[Len(points)]>>

DictGet(d, key, default) == IF key \in DOMAIN d THEN d[key] ELSE default

\* the Shape node written for one segment
ShapeNode(material, st) ==
    [diffuseColor  |-> DictGet(material, "diffuse_color", <<"0.8", "0.8", "0.8">>),
     specularColor |-> DictGet(material, "specular_color", <<"0.5", "0.5", "0.5">>),
     transparency  |-> "0",
     point         |-> InsertBeforeLast(st.points, st.points[Len(st.points)]),
     coordIndex    |-> st.coord_index]

\* WalkShapes writing each Shape node in front of the earlier ones
RECURSIVE WalkShapesReversed(_, _, _, _)
WalkShapesReversed(segments, materials, vertices, nodes) ==
    IF segments = <<>> THEN [err |-> FALSE, nodes |-> nodes]
    ELSE LET shape == Head(segments)
             rest  == Tail(segments)
         IN  IF shape.material \notin DOMAIN materials
             THEN WalkShapesReversed(rest, materials, vertices, nodes)
             ELSE LET st == WalkFaces(shape.faces, vertices, GroupStart)
                  IN  IF st.err THEN [err |-> TRUE, nodes |-> <<>>]
                      ELSE IF st.points = <<>>
                      THEN WalkShapesReversed(rest, materials, vertices, nodes)
                      ELSE WalkShapesReversed(rest, materials, vertices,
                             <<ShapeNode(materials[shape.material], st)>> \o nodes)

\* WalkShapes without the "material_name not in materials" test: the lookup
\* of an undefined material raises
RECURSIVE WalkShapesKeyError(_, _, _, _)
WalkShapesKeyError(segments, materials, vertices, nodes) ==
    IF segments = <<>> THEN [err |-> FALSE, nodes |-> nodes]
    ELSE LET shape == Head(segments)
             rest  == Tail(segments)
         IN  IF shape.material \notin DOMAIN materials
             THEN [err |-> TRUE, nodes |-> <<>>]
             ELSE LET st == WalkFaces(shape.faces, vertices, GroupStart)
                  IN  IF st.err THEN [err |-> TRUE, nodes |-> <<>>]
                      ELSE IF st.points = <<>>
                      THEN WalkShapesKeyError(rest, materials, vertices, nodes)
                      ELSE WalkShapesKeyError(rest, materials, vertices,
                             Append(nodes, ShapeNode(materials[shape.material], st)))

\* the loop over the segments; err is set once a face raised
RECURSIVE WalkShapes(_, _, _, _)
WalkShapes(segments, materials, vertices, nodes) ==
    IF segments = <<>> THEN [err |-> FALSE, nodes |-> nodes]
    ELSE LET shape == Head(segments)
             rest  == Tail(segments)
         IN  IF shape.material \notin DOMAIN materials
             THEN WalkShapes(rest, materials, vertices, nodes)
             ELSE LET st == WalkFaces(shape.faces, vertices, GroupStart)
                  IN  IF st.err THEN [err |-> TRUE, nodes |-> <<>>]
                      ELSE IF st.points = <<>>
                      THEN WalkShapes(rest, materials, vertices, nodes)
                      ELSE WalkShapes(rest, materials, vertices,
                             Append(nodes, ShapeNode(materials[shape.material], st)))

ConvertObjToWrl(obj) ==
    LET materials == ExtractObjMaterials(obj.mtl)
        vertices  == ExtractObjVertices(obj.v)
        walked    == WalkShapes(obj.shapes, materials, vertices, <<>>)
    IN  IF walked.err THEN None
        ELSE [header |-> "#VRML V2.0 utf8", nodes |-> walked.nodes]

(***************************************************************************)
(* One call of _convert_obj_to_wrl                                         *)
(***************************************************************************)
\* nothing has been called yet
\* time.time() when the client is made: seconds since the epoch, far more
\* than REQUEST_DELAY

Init ==
    /\ pc = "idle"
    /\ obj_content = None
    /\ wrl_content = None
    /\ shape_array = <<>>
    /\ translation = <<0, 0>>
    /\ shapes = None
    /\ easyeda_data = None
    /\ component_info = None
    /\ kicadmodtree_available = TRUE
    /\ converted = None
    /\ raw_name = <<>>
    /\ sanitized_name = <<>>
    /\ symbol_lib_path = Absent
    /\ footprint_lib_path = {}
    /\ model_3d_path = {}
    /\ sym_lib_table = Absent
    /\ fp_lib_table = Absent
    /\ results = None
    /\ saved = <<>>
    /\ calls = 0
    /\ now = 100
    /\ last_request_time = 0
    /\ requests = <<>>
    /\ config_path = [exists |-> FALSE]
    /\ config = EmptyDict
    /\ got = None
    /\ search_results = <<>>
    /\ results_list = <<>>
    /\ current_page = 1
    /\ load_more_btn = FALSE
    /\ sort_column = -1
    /\ sort_reverse = FALSE
    /\ selected_component = None

CallConvertObjToWrl ==
    /\ pc = "idle"
    /\ \E obj \in [mtl : {ObjMaterialBlocks}, v : {ObjVertexLines},
                   shapes : SeqsUpTo(FaceGroups, MaxGroups)] :
          /\ obj_content' = obj
          /\ wrl_content' = ConvertObjToWrl(obj)
    /\ pc' = "_convert_obj_to_wrl"
    /\ UNCHANGED <<decodeVars, convertVars, nameVars, libVars, apiVars, configVars, searchVars>>

NextWrl == CallConvertObjToWrl

SpecWrl == Init /\ [][NextWrl]_vars

(***************************************************************************)
(* What the claims about the mesh encoder talk about, stated from the      *)
(* input alone                                                             *)
(***************************************************************************)
RECURSIVE Flatten(_)
Flatten(faces) == IF faces = <<>> THEN <<>> ELSE Head(faces) \o Flatten(Tail(faces))

\* the distinct elements of s, in the order of their first occurrence
RECURSIVE Distinct(_)
Distinct(s) ==
    IF s = <<>> THEN <<>>
    ELSE LET front == Distinct(SubSeq(s, 1, Len(s) - 1))
             last  == s[Len(s)]
         IN  IF \E k \in DOMAIN front : front[k] = last THEN front ELSE Append(front, last)

\* position of x in the duplicate-free sequence d
PosIn(d, x) == CHOOSE k \in DOMAIN d : d[k] = x

DefinedMaterials == DOMAIN ExtractObjMaterials(obj_content.mtl)

IsEmitted(g) == g.material \in DefinedMaterials /\ Flatten(g.faces) # <<>>

\* the segments a Shape node is written for, in document order
EmittedGroups == SelectSeq(obj_content.shapes, IsEmitted)

Converted == pc = "_convert_obj_to_wrl" /\ wrl_content # None

RemoveAt(s, i) == SubSeq(s, 1, i - 1) \o SubSeq(s, i + 1, Len(s))

\* C7: in every Shape node the local index of a vertex reference is the rank
\* (from 0) of its first occurrence among the references of its own group,
\* and the k-th distinct reference contributes the k-th point.
C7_LocalIndexPerGroup ==
    Converted =>
      /\ Len(wrl_content.nodes) = Len(EmittedGroups)
      /\ \A i \in DOMAIN wrl_content.nodes :
            LET g    == EmittedGroups[i]
                node == wrl_content.nodes[i]
                d    == Distinct(Flatten(g.faces))
            IN  /\ Len(node.coordIndex) = Len(g.faces)
                /\ \A f \in DOMAIN g.faces : \A j \in DOMAIN g.faces[f] :
                      node.coordIndex[f][j] = PosIn(d, g.faces[f][j]) - 1
                /\ \A k \in DOMAIN d :
                      node.point[k] = ExtractObjVertices(obj_content.v)[d[k]]

\* a group that references a vertex twice, and a later group that references
\* a vertex of an earlier one, were both encoded
C7_Witness ==
    /\ Converted
    /\ Len(wrl_content.nodes) = 2
    /\ \E i \in DOMAIN wrl_content.nodes :
          Len(Flatten(EmittedGroups[i].faces)) > Len(Distinct(Flatten(EmittedGroups[i].faces)))
    /\ \E r \in FaceRefs :
          /\ Distinct(Flatten(EmittedGroups[1].faces))[1] # r
          /\ \E k \in DOMAIN Flatten(EmittedGroups[1].faces) : Flatten(EmittedGroups[1].faces)[k] = r
          /\ Flatten(EmittedGroups[2].faces)[1] = r

\* C8: a Shape node of a group with n distinct referenced vertices has n+1
\* points: the n points in first-reference order, then the last one again.
C8_TrailingDuplicate ==
    Converted =>
      \A i \in DOMAIN wrl_content.nodes :
         LET node == wrl_content.nodes[i]
             refs == Flatten(EmittedGroups[i].faces)
             n    == Cardinality({refs[k] : k \in DOMAIN refs})
             d    == Distinct(refs)
         IN  /\ n >= 1
             /\ Len(node.point) = n + 1
             /\ node.point[n + 1] = node.point[n]
             /\ SubSeq(node.point, 1, n) =
                   [k \in 1..n |-> ExtractObjVertices(obj_content.v)[d[k]]]

C8_Witness ==
    /\ Converted
    /\ \E i \in DOMAIN wrl_content.nodes :
          /\ Len(wrl_content.nodes[i].point) = 3
          /\ wrl_content.nodes[i].point[1] # wrl_content.nodes[i].point[2]

\* C9: coordIndex has one entry per face of the group, in face order; each
\* entry ends with -1 and its other indices are positions of the node's own
\* point list.
C9_CoordIndexWellFormed ==
    Converted =>
      \A i \in DOMAIN wrl_content.nodes :
         LET node  == wrl_content.nodes[i]
             faces == EmittedGroups[i].faces
         IN  /\ Len(node.coordIndex) = Len(faces)
             /\ \A f \in DOMAIN node.coordIndex :
                   LET entry == node.coordIndex[f]
                   IN  /\ Len(entry) = Len(faces[f]) + 1
                       /\ entry[Len(entry)] = -1
                       /\ \A j \in 1..(Len(entry) - 1) :
                             entry[j] >= 0 /\ entry[j] < Len(node.point)

C9_Witness ==
    /\ Converted
    /\ \E i \in DOMAIN wrl_content.nodes :
          /\ Len(wrl_content.nodes[i].coordIndex) = 2
          /\ Len(wrl_content.nodes[i].coordIndex[1]) = 3
          /\ Len(wrl_content.nodes[i].coordIndex[2]) = 3

\* C10: a segment whose material is not defined yields no Shape node, and the
\* call returns what it returns for the document without that segment.
C10_UnknownMaterialDropped ==
    pc = "_convert_obj_to_wrl" =>
      \A i \in DOMAIN obj_content.shapes :
         obj_content.shapes[i].material \notin DefinedMaterials =>
            /\ wrl_content =
                 ConvertObjToWrl([obj_content EXCEPT !.shapes = RemoveAt(obj_content.shapes, i)])
            /\ wrl_content # None =>
                 Len(wrl_content.nodes) <=
                    Cardinality({k \in DOMAIN obj_content.shapes :
                                    obj_content.shapes[k].material \in DefinedMaterials})

C10_Witness ==
    /\ Converted
    /\ Len(wrl_content.nodes) = 1
    /\ Len(obj_content.shapes) = 2
    /\ obj_content.shapes[1].material \notin DefinedMaterials
    /\ Flatten(obj_content.shapes[1].faces) # <<>>

\* C11: the scene document is the fixed header followed by one Shape node
\* per emitted face group, in the order of the groups, and every node is
\* the node of its own group alone
C11_NodesInGroupOrder ==
    Converted =>
      /\ wrl_content.header = "#VRML V2.0 utf8"
      /\ Len(wrl_content.nodes) = Len(EmittedGroups)
      /\ \A i \in DOMAIN wrl_content.nodes :
            ConvertObjToWrl([obj_content EXCEPT !.shapes = <<EmittedGroups[i]>>]).nodes
               = <<wrl_content.nodes[i]>>

\* two groups with different faces were both encoded
C11_Witness ==
    /\ Converted
    /\ Len(obj_content.shapes) = 2
    /\ Len(wrl_content.nodes) = 2
    /\ wrl_content.nodes[1] # wrl_content.nodes[2]

(***************************************************************************)
(* _convert_obj_to_wrl on the text of the "f" lines.  A vertex reference   *)
(* is the list of its characters; the materials include one with a "d"     *)
(* line                                                                    *)
(***************************************************************************)
NumTextVertices == 12   \* "v" lines of the document
MaxTextFaceLen  == 1    \* vertex references on one "f" line
MaxTextFaces    == 2    \* "f" lines after one "usemtl"

TextMaterialBlocks ==
    << << <<"newmtl", "m1">>, <<"Kd", "1", "0", "0">>, <<"d", "0.5">>, <<"endmtl">> >>,
       << <<"newmtl", "m2">>, <<"Kd", "0", "1", "0">>, <<"endmtl">> >> >>

\* "1", "2//", "1//2", "0", "13" (no such vertex) and "x" (not an integer)
TextGroups ==
    LET FaceTokens == { <<"1">>, <<"2", "/", "/">>, <<"1", "/", "/", "2">>, <<"0">>,
                        <<"1", "3">>, <<"x">> }
    IN  [material : {"m1", "m2", "mX"},
         faces : SeqsUpTo(SeqsUpTo(FaceTokens, MaxTextFaceLen), MaxTextFaces)]

\* a group that is always encoded
PlainGroup == [material |-> "m2", faces |-> << << <<"1">> >>, << <<"2", "/", "/">> >> >>]

\* the document with the segments given: one group alone, or one group
\* before or after the group that is always encoded
TextDocument(segments) ==
    [mtl |-> TextMaterialBlocks,
     v |-> [i \in 1..NumTextVertices |-> <<254 * i, 127 * i, 0>>],
     shapes |-> segments]

\* str.replace("//", "")
RECURSIVE RemoveSlashes(_)
RemoveSlashes(str) ==
    IF Len(str) >= 2 /\ str[1] = "/" /\ str[2] = "/" THEN RemoveSlashes(SubSeq(str, 3, Len(str)))
    ELSE IF str = <<>> THEN <<>>
    ELSE <<Head(str)>> \o RemoveSlashes(Tail(str))

DigitTable == [c \in {"0", "1", "2", "3", "4", "5", "6", "7", "8", "9"} |->
                 CASE c = "0" -> 0 [] c = "1" -> 1 [] c = "2" -> 2 [] c = "3" -> 3
                   [] c = "4" -> 4 [] c = "5" -> 5 [] c = "6" -> 6 [] c = "7" -> 7
                   [] c = "8" -> 8 [] c = "9" -> 9]

\* int(idx) accepts the decimal digits
IsInt(str) == str # <<>> /\ \A i \in DOMAIN str : str[i] \in DOMAIN DigitTable

RECURSIVE IntOf(_)
IntOf(str) ==
    IF str = <<>> THEN 0
    ELSE 10 * IntOf(SubSeq(str, 1, Len(str) - 1)) + DigitTable[str[Len(str)]]

\* face_parts and face of one "f" line: err when int() raises ValueError
ParseFace(tokens) ==
    LET NotEmpty(str) == str # <<>>
        face_parts == SelectSeq([i \in DOMAIN tokens |-> RemoveSlashes(tokens[i])], NotEmpty)
    IN  IF \E i \in DOMAIN face_parts : ~IsInt(face_parts[i])
        THEN [err |-> TRUE, face |-> <<>>]
        ELSE [err |-> FALSE, face |-> [i \in DOMAIN face_parts |-> IntOf(face_parts[i])]]

\* the "f" lines of one segment as lists of integers; the lines of a
\* segment with an undefined material are never read
ParseSegment(shape, materials) ==
    IF shape.material \notin DOMAIN materials
    THEN [err |-> FALSE, shape |-> [material |-> shape.material, faces |-> <<>>]]
    ELSE [err   |-> \E f \in DOMAIN shape.faces : ParseFace(shape.faces[f]).err,
          shape |-> [material |-> shape.material,
                     faces    |-> [f \in DOMAIN shape.faces |-> ParseFace(shape.faces[f]).face]]]

\* _convert_obj_to_wrl on a document whose references are text
ConvertObjTextToWrl(obj) ==
    LET materials == ExtractObjMaterials(obj.mtl)
        parsed    == [i \in DOMAIN obj.shapes |-> ParseSegment(obj.shapes[i], materials)]
    IN  IF \E i \in DOMAIN parsed : parsed[i].err THEN None
        ELSE ConvertObjToWrl([obj EXCEPT !.shapes = [i \in DOMAIN parsed |-> parsed[i].shape]])

CallConvertObjTextToWrl ==
    /\ pc = "idle"
    /\ \E g \in TextGroups :
          \E segments \in {<<g>>, <<g, PlainGroup>>, <<PlainGroup, g>>} :
             /\ obj_content' = TextDocument(segments)
             /\ wrl_content' = ConvertObjTextToWrl(TextDocument(segments))
    /\ pc' = "_convert_obj_to_wrl"
    /\ UNCHANGED <<decodeVars, convertVars, nameVars, libVars, apiVars, configVars, searchVars>>

NextWrlText == CallConvertObjTextToWrl

SpecWrlText == Init /\ [][NextWrlText]_vars

(***************************************************************************)
(* Claims on the text of the "f" lines and on the materials               *)
(***************************************************************************)
TextCalled == pc = "_convert_obj_to_wrl"

TextMaterials == ExtractObjMaterials(obj_content.mtl)

\* the characters of a reference in front of its first "/"
RECURSIVE VertexPart(_)
VertexPart(token) ==
    IF token = <<>> \/ Head(token) = "/" THEN <<>>
    ELSE <<Head(token)>> \o VertexPart(Tail(token))

\* a face line with a reference that is not an integer or that names no
\* vertex of the document
FailsToParse(tokens) ==
    \E t \in DOMAIN tokens :
        \/ ~IsInt(RemoveSlashes(tokens[t]))
        \/ IntOf(RemoveSlashes(tokens[t])) \notin 1..NumTextVertices

WithoutFace(obj, g, f) ==
    [obj EXCEPT !.shapes[g].faces = RemoveAt(obj.shapes[g].faces, f)]

\* C12: a face line that fails to parse is skipped on its own: the call
\* still returns a scene document, the one of the document without that
\* line
C12_BadFaceSkipped ==
    TextCalled =>
        \A g \in DOMAIN obj_content.shapes :
            obj_content.shapes[g].material \in DOMAIN TextMaterials =>
                \A f \in DOMAIN obj_content.shapes[g].faces :
                    FailsToParse(obj_content.shapes[g].faces[f]) =>
                        /\ wrl_content # None
                        /\ wrl_content = ConvertObjTextToWrl(WithoutFace(obj_content, g, f))

\* every reference of the document starts with an integer
WellFormedReferences(obj) ==
    \A g \in DOMAIN obj.shapes : \A f \in DOMAIN obj.shapes[g].faces :
        \A t \in DOMAIN obj.shapes[g].faces[f] :
            IsInt(VertexPart(obj.shapes[g].faces[f][t]))

\* the document with every reference v//n replaced by v
VerticesOnly(obj) ==
    [obj EXCEPT !.shapes =
        [g \in DOMAIN obj.shapes |->
            [material |-> obj.shapes[g].material,
             faces    |-> [f \in DOMAIN obj.shapes[g].faces |->
                              [t \in DOMAIN obj.shapes[g].faces[f] |->
                                  VertexPart(obj.shapes[g].faces[f][t])]]]]]

\* C13: the vertex used for a reference v//n is v: the call returns what it
\* returns for the document with the normal references taken away
C13_NormalStripped ==
    (TextCalled /\ WellFormedReferences(obj_content)) =>
        wrl_content = ConvertObjTextToWrl(VerticesOnly(obj_content))

TextEmitted(g) ==
    /\ g.material \in DOMAIN TextMaterials
    /\ Flatten(ParseSegment(g, TextMaterials).shape.faces) # <<>>

\* C14: the transparency of a Shape node is the "d" value of the material
\* of its group, and 0 when the material has none
C14_TransparencyFromMaterial ==
    (TextCalled /\ wrl_content # None) =>
        \A i \in DOMAIN wrl_content.nodes :
            wrl_content.nodes[i].transparency =
                DictGet(TextMaterials[SelectSeq(obj_content.shapes, TextEmitted)[i].material],
                        "transparency", "0")

(***************************************************************************)
(* Shape lines.  A line is the list line.split("~"): the opcode, then the  *)
(* fields, every field a string.                                           *)
(***************************************************************************)
MaxLines == 3    \* lines of one shape list

\* float(s): the strings it accepts, and its value
FloatTable == [s \in {"0", "5", "10", "20", "90"} |->
                 CASE s = "0" -> 0 [] s = "5" -> 5 [] s = "10" -> 10
                   [] s = "20" -> 20 [] s = "90" -> 90]

IsFloat(s) == s \in DOMAIN FloatTable

Float(s) == FloatTable[s]

\* str.split() of the point strings used in the shape lists
PointsTable == [s \in {"0 0 10 10", "0 0 10 10 20 0", "0 0", "0 0 10", "0 0 x 10"} |->
                  CASE s = "0 0 10 10"      -> <<"0", "0", "10", "10">>
                    [] s = "0 0 10 10 20 0" -> <<"0", "0", "10", "10", "20", "0">>
                    [] s = "0 0"            -> <<"0", "0">>
                    [] s = "0 0 10"         -> <<"0", "0", "10">>
                    [] s = "0 0 x 10"       -> <<"0", "0", "x", "10">>]

Split(s) == IF s \in DOMAIN PointsTable THEN PointsTable[s]
            ELSE IF s = "" THEN <<>> ELSE <<s>>

\* lines for the decoders, by what is wrong with them
SymbolGoodLines ==
    { <<"R", "0", "0", "10", "20">>,
      <<"R", "5", "10", "10", "20", "", "", "", "", "none">>,
      <<"E", "10", "10", "5", "5">>,
      <<"P", "10", "0", "90">>,
      <<"PL", "0 0 10 10">>,
      <<"PG", "0 0 10 10 20 0">> }

\* a recognized opcode with too few fields, or with a field float() rejects
SymbolBadLines ==
    { <<"R", "0", "0", "10">>,
      <<"R", "0", "x", "10", "20">>,
      <<"P", "10">>,
      <<"PL", "0 0 x 10">> }

\* a point string with fewer than two complete pairs
SymbolShortLines == { <<"PL", "0 0">> }

\* with the opcodes that are in no handler table
SymbolLines ==
    SymbolGoodLines \cup SymbolBadLines \cup SymbolShortLines
        \cup { <<"T", "0", "0", "10", "20">>, <<"">> }

FootprintGoodLines ==
    { <<"PAD", "RECT", "10", "10", "20", "10", "1", "", "0">>,
      <<"PAD", "OVAL", "10", "10", "20", "10", "11", "", "5">>,
      <<"TRACK", "5", "3", "0 0 10 10">>,
      <<"CIRCLE", "10", "10", "5">>,
      <<"RECT", "0", "0", "10", "20", "3">>,
      <<"HOLE", "10", "10", "5">> }

FootprintBadLines ==
    { <<"PAD", "RECT", "10", "10", "20">>,
      <<"PAD", "RECT", "10", "10", "20", "10", "1", "", "x">>,
      <<"TRACK", "5", "3">>,
      <<"CIRCLE", "10", "10", "5", "">> }

FootprintShortLines == { <<"TRACK", "5", "3", "0 0 10">> }

FootprintLines ==
    FootprintGoodLines \cup FootprintBadLines \cup FootprintShortLines
        \cup { <<"SOLIDREGION", "0", "0", "10", "20">>, <<"">> }

Translations == { <<0, 0>>, <<5, 10>> }

\* args[i] of Python (0-based) in the list data
Arg(data, i) == data[i + 1]

\* the try block of a parser raised ValueError
AllFloat(data, idx) == \A i \in idx : IsFloat(Arg(data, i))

(***************************************************************************)
(* SymbolPreviewRenderer: _mil_to_px and the parsers.  Pixels are kept in  *)
(* tenths (0.2 px per mil = 2 tenths).                                     *)
(***************************************************************************)
SymMilToPx(mil_value) == mil_value * 2

\* _parse_rectangle without its two "return None"
SymParseRectangleAlways(args, tr) ==
    IF Len(args) < 4 \/ ~AllFloat(args, 0..3)
    THEN [type |-> "rectangle", coords |-> <<0, 0, 0, 0>>, fill |-> FALSE]
    ELSE LET x      == SymMilToPx(Float(Arg(args, 0)) - tr[1])
             y      == SymMilToPx(Float(Arg(args, 1)) - tr[2])
             width  == SymMilToPx(Float(Arg(args, 2)))
             height == SymMilToPx(Float(Arg(args, 3)))
         IN  [type |-> "rectangle", coords |-> <<x, y, x + width, y + height>>,
              fill |-> (Len(args) > 8 /\ Arg(args, 8) # "none")]

SymParseRectangle(args, tr) ==
    IF Len(args) < 4 THEN None
    ELSE IF ~AllFloat(args, 0..3) THEN None
    ELSE LET x      == SymMilToPx(Float(Arg(args, 0)) - tr[1])
             y      == SymMilToPx(Float(Arg(args, 1)) - tr[2])
             width  == SymMilToPx(Float(Arg(args, 2)))
             height == SymMilToPx(Float(Arg(args, 3)))
         IN  [type |-> "rectangle", coords |-> <<x, y, x + width, y + height>>,
              fill |-> (Len(args) > 8 /\ Arg(args, 8) # "none")]

SymParseEllipse(args, tr) ==
    IF Len(args) < 4 THEN None
    ELSE IF ~AllFloat(args, 0..3) THEN None
    ELSE LET cx == SymMilToPx(Float(Arg(args, 0)) - tr[1])
             cy == SymMilToPx(Float(Arg(args, 1)) - tr[2])
             rx == SymMilToPx(Float(Arg(args, 2)))
             ry == SymMilToPx(Float(Arg(args, 3)))
         IN  [type |-> "ellipse", coords |-> <<cx - rx, cy - ry, cx + rx, cy + ry>>,
              fill |-> FALSE]

SymParsePin(args, tr) ==
    IF Len(args) < 2 THEN None
    ELSE IF ~AllFloat(args, 0..1) \/ (Len(args) > 2 /\ ~IsFloat(Arg(args, 2))) THEN None
    ELSE LET x        == SymMilToPx(Float(Arg(args, 0)) - tr[1])
             y        == SymMilToPx(Float(Arg(args, 1)) - tr[2])
             rotation == IF Len(args) > 2 THEN Float(Arg(args, 2)) ELSE 0
             length   == 400
         IN  [type |-> "pin",
              coords |-> IF rotation = 0 THEN <<x, y, x + length, y>>
                         ELSE IF rotation = 90 THEN <<x, y, x, y + length>>
                         ELSE IF rotation = 180 THEN <<x, y, x - length, y>>
                         ELSE <<x, y, x, y - length>>]

\* the loop "for i in range(0, len(coords), 2)" of _parse_polyline and
\* _parse_track: the complete pairs, or a ValueError
PairCount(coords) == Len(coords) \div 2

PairsFloat(coords) == \A k \in 1..(2 * PairCount(coords)) : IsFloat(coords[k])

SymPoints(coords, tr) ==
    [k \in 1..PairCount(coords) |->
        <<SymMilToPx(Float(coords[2 * k - 1]) - tr[1]),
          SymMilToPx(Float(coords[2 * k]) - tr[2])>>]

\* _parse_polyline without "if len(points) < 2: return None"
SymParsePolylineAny(args, tr) ==
    IF Len(args) < 1 THEN None
    ELSE LET coords == Split(Arg(args, 0))
         IN  IF ~PairsFloat(coords) THEN None
             ELSE [type |-> "polyline", points |-> SymPoints(coords, tr)]

SymParsePolyline(args, tr) ==
    IF Len(args) < 1 THEN None
    ELSE LET coords == Split(Arg(args, 0))
         IN  IF ~PairsFloat(coords) THEN None
             ELSE IF Len(SymPoints(coords, tr)) < 2 THEN None
             ELSE [type |-> "polyline", points |-> SymPoints(coords, tr)]

SymParsePolygon(args, tr) ==
    LET result == SymParsePolyline(args, tr)
    IN  IF result = None THEN None
        ELSE [type |-> "polygon", points |-> result.points, fill |-> TRUE]

\* the if / elif chain of _parse_shapes for one line: what is appended to
\* shapes (None when nothing is, or when the parser returned None)
\* the if/elif chain of _parse_shapes with a final else
SymParseLineElse(line, tr) ==
    LET shape_type == line[1]
        args       == Tail(line)
    IN  IF shape_type = "R" THEN SymParseRectangle(args, tr)
        ELSE IF shape_type = "E" THEN SymParseEllipse(args, tr)
        ELSE IF shape_type = "P" THEN SymParsePin(args, tr)
        ELSE IF shape_type = "PL" THEN SymParsePolyline(args, tr)
        ELSE IF shape_type = "PG" THEN SymParsePolygon(args, tr)
        ELSE SymParseRectangle(args, tr)

SymParseLine(line, tr) ==
    LET shape_type == line[1]
        args       == Tail(line)
    IN  IF shape_type = "R" THEN SymParseRectangle(args, tr)
        ELSE IF shape_type = "E" THEN SymParseEllipse(args, tr)
        ELSE IF shape_type = "P" THEN SymParsePin(args, tr)
        ELSE IF shape_type = "PL" THEN SymParsePolyline(args, tr)
        ELSE IF shape_type = "PG" THEN SymParsePolygon(args, tr)
        ELSE None

\* [s for s in shapes if s is not None]
NotNone(s) == s # None

SymParseShapes(array, tr) ==
    SelectSeq([i \in DOMAIN array |-> SymParseLine(array[i], tr)], NotNone)

(***************************************************************************)
(* FootprintPreviewRenderer: _mil_to_px (0.4 px per mil = 4 tenths) and    *)
(* the parsers                                                             *)
(***************************************************************************)
FpMilToPx(mil_value) == mil_value * 4

FpParsePad(args, tr) ==
    IF Len(args) < 5 THEN None
    ELSE IF ~AllFloat(args, 1..4) \/ (Len(args) > 7 /\ ~IsFloat(Arg(args, 7))) THEN None
    ELSE LET x         == FpMilToPx(Float(Arg(args, 1)) - tr[1])
             y         == FpMilToPx(Float(Arg(args, 2)) - tr[2])
             width     == FpMilToPx(Float(Arg(args, 3)))
             height    == FpMilToPx(Float(Arg(args, 4)))
             hole_size == IF Len(args) > 7 THEN Float(Arg(args, 7)) ELSE 0
         IN  [type |-> "pad", shape |-> Arg(args, 0),
              coords |-> <<x - width \div 2, y - height \div 2,
                           x + width \div 2, y + height \div 2>>,
              hole_size |-> IF hole_size > 0 THEN FpMilToPx(hole_size) ELSE 0,
              layer |-> IF Len(args) > 5 THEN Arg(args, 5) ELSE "1"]

FpPoints(coords, tr) ==
    [k \in 1..PairCount(coords) |->
        <<FpMilToPx(Float(coords[2 * k - 1]) - tr[1]),
          FpMilToPx(Float(coords[2 * k]) - tr[2])>>]

FpParseTrack(args, tr) ==
    IF Len(args) < 3 THEN None
    ELSE IF ~IsFloat(Arg(args, 0)) THEN None
    ELSE LET coords == Split(Arg(args, 2))
         IN  IF ~PairsFloat(coords) THEN None
             ELSE IF Len(FpPoints(coords, tr)) < 2 THEN None
             ELSE [type |-> "track", points |-> FpPoints(coords, tr),
                   width |-> FpMilToPx(Float(Arg(args, 0))), layer |-> Arg(args, 1)]

FpParseCircle(args, tr) ==
    IF Len(args) < 3 THEN None
    ELSE IF ~AllFloat(args, 0..2) \/ (Len(args) > 3 /\ ~IsFloat(Arg(args, 3))) THEN None
    ELSE LET cx     == FpMilToPx(Float(Arg(args, 0)) - tr[1])
             cy     == FpMilToPx(Float(Arg(args, 1)) - tr[2])
             radius == FpMilToPx(Float(Arg(args, 2)))
         IN  [type |-> "circle",
              coords |-> <<cx - radius, cy - radius, cx + radius, cy + radius>>,
              width |-> IF Len(args) > 3 THEN FpMilToPx(Float(Arg(args, 3))) ELSE 10,
              layer |-> IF Len(args) > 4 THEN Arg(args, 4) ELSE "3"]

FpParseRect(args, tr) ==
    IF Len(args) < 4 THEN None
    ELSE IF ~AllFloat(args, 0..3) THEN None
    ELSE LET x      == FpMilToPx(Float(Arg(args, 0)) - tr[1])
             y      == FpMilToPx(Float(Arg(args, 1)) - tr[2])
             width  == FpMilToPx(Float(Arg(args, 2)))
             height == FpMilToPx(Float(Arg(args, 3)))
         IN  [type |-> "rect", coords |-> <<x, y, x + width, y + height>>,
              layer |-> IF Len(args) > 4 THEN Arg(args, 4) ELSE "3"]

FpParseHole(args, tr) ==
    IF Len(args) < 3 THEN None
    ELSE IF ~AllFloat(args, 0..2) THEN None
    ELSE LET x        == FpMilToPx(Float(Arg(args, 0)) - tr[1])
             y        == FpMilToPx(Float(Arg(args, 1)) - tr[2])
             diameter == FpMilToPx(Float(Arg(args, 2)))
         IN  [type |-> "hole",
              coords |-> <<x - diameter \div 2, y - diameter \div 2,
                           x + diameter \div 2, y + diameter \div 2>>]

FpParseLine(line, tr) ==
    LET shape_type == line[1]
        args       == Tail(line)
    IN  IF shape_type = "PAD" THEN FpParsePad(args, tr)
        ELSE IF shape_type = "TRACK" THEN FpParseTrack(args, tr)
        ELSE IF shape_type = "CIRCLE" THEN FpParseCircle(args, tr)
        ELSE IF shape_type = "RECT" THEN FpParseRect(args, tr)
        ELSE IF shape_type = "HOLE" THEN FpParseHole(args, tr)
        ELSE None

FpParseShapes(array, tr) ==
    SelectSeq([i \in DOMAIN array |-> FpParseLine(array[i], tr)], NotNone)

(***************************************************************************)
(* Text.  A str of the metadata is the list of its characters; a document  *)
(* is the list of its tokens: "(", ")", the double quote, the newline and  *)
(* the words between them, with interpolated values character by           *)
(* character.                                                              *)
(***************************************************************************)
\* None where the code expects a str
NoneStr == <<"<None>">>

\* "{v}" in an f-string
Fmt(v) == IF v = NoneStr THEN <<"N", "o", "n", "e">> ELSE v

StrUnknown == <<"U", "n", "k", "n", "o", "w", "n">>

\* str.replace(old, new) for a one-character old
RECURSIVE ReplaceAll(_, _, _)
ReplaceAll(str, old, new) ==
    IF str = <<>> THEN <<>>
    ELSE (IF Head(str) = old THEN new ELSE <<Head(str)>>) \o ReplaceAll(Tail(str), old, new)

\* the chain of replace calls with "/" replaced by "_"
SanitizeSlash(name) ==
    LET r1 == ReplaceAll(name, " ", <<"_">>)
        r2 == ReplaceAll(r1, ".", <<"_">>)
        r3 == ReplaceAll(r2, "/", <<"_">>)
        r4 == ReplaceAll(r3, "\\", <<"{", "b", "a", "c", "k", "s", "l", "a", "s", "h", "}">>)
        r5 == ReplaceAll(r4, "<", <<"{", "l", "t", "}">>)
        r6 == ReplaceAll(r5, ">", <<"{", "g", "t", "}">>)
        r7 == ReplaceAll(r6, ":", <<"{", "c", "o", "l", "o", "n", "}">>)
    IN  ReplaceAll(r7, "\"", <<"{", "d", "b", "l", "q", "u", "o", "t", "e", "}">>)

\* the chain of replace calls of _get_symbol_name, _get_footprint_reference
\* and _get_footprint_name
Sanitize(name) ==
    LET r1 == ReplaceAll(name, " ", <<"_">>)
        r2 == ReplaceAll(r1, ".", <<"_">>)
        r3 == ReplaceAll(r2, "/", <<"{", "s", "l", "a", "s", "h", "}">>)
        r4 == ReplaceAll(r3, "\\", <<"{", "b", "a", "c", "k", "s", "l", "a", "s", "h", "}">>)
        r5 == ReplaceAll(r4, "<", <<"{", "l", "t", "}">>)
        r6 == ReplaceAll(r5, ">", <<"{", "g", "t", "}">>)
        r7 == ReplaceAll(r6, ":", <<"{", "c", "o", "l", "o", "n", "}">>)
    IN  ReplaceAll(r7, "\"", <<"{", "d", "b", "l", "q", "u", "o", "t", "e", "}">>)

\* a call that raised, and a call that returned value
Raised == [raised |-> TRUE, value |-> <<>>]

Returned(v) == [raised |-> FALSE, value |-> v]

\* SymbolConverter._get_symbol_name: None.replace raises AttributeError
GetSymbolName(info) ==
    LET description == DictGet(info, "description", StrUnknown)
    IN  IF description = NoneStr THEN Raised ELSE Returned(Sanitize(description))

\* self.config.get("footprint_lib_nickname"): DEFAULT_CONFIG has no such key
FootprintLibNickname == NoneStr

\* SymbolConverter._get_footprint_reference
GetFootprintReference(info) ==
    LET lcsc_id == DictGet(info, "lcsc_id", StrUnknown)
        package == DictGet(info, "package", StrUnknown)
    IN  IF package = NoneStr THEN Raised
        ELSE Returned(Fmt(FootprintLibNickname) \o <<":">> \o Fmt(lcsc_id) \o <<"_">>
                        \o Sanitize(package))

\* FootprintConverter._get_footprint_name
GetFootprintName(info) ==
    LET lcsc_id == DictGet(info, "lcsc_id", StrUnknown)
        package == DictGet(info, "package", StrUnknown)
    IN  IF package = NoneStr THEN Raised
        ELSE Returned(Fmt(lcsc_id) \o <<"_">> \o Sanitize(package))

\* component_info.get("prefix", "U").replace("?", "")
GetReference(info) ==
    LET prefix == DictGet(info, "prefix", <<"U">>)
    IN  IF prefix = NoneStr THEN Raised ELSE Returned(ReplaceAll(prefix, "?", <<>>))

\* the f-string of _create_symbol_from_easyeda (lines 144-201)
CompleteSymbol(symbol_name, reference, description, footprint_name, datasheet, lcsc_id, manufacturer, drawing) ==
    <<"(", "kicad_symbol_lib", "\n", "(", "version", "20241209", ")", "\n", "(",
      "generator", "\"", "kicad_lcsc_manager", "\"", ")", "\n", "(",
      "generator_version", "\"", "1.0", "\"", ")", "\n", "(", "symbol", "\"">>
 \o Fmt(symbol_name)
 \o <<"\"", "\n", "(", "exclude_from_sim", "no", ")", "\n", "(", "in_bom", "yes",
      ")", "\n", "(", "on_board", "yes", ")", "\n", "(", "property", "\"",
      "Reference", "\"", "\"">>
 \o Fmt(reference)
 \o <<"\"", "\n", "(", "at", "0", "1.27", "0", ")", "\n", "(", "effects", "\n", "(",
      "font", "(", "size", "1.27", "1.27", ")", ")", "\n", ")", "\n", ")", "\n",
      "(", "property", "\"", "Value", "\"", "\"">>
 \o Fmt(description)
 \o <<"\"", "\n", "(", "at", "0", "-2.54", "0", ")", "\n", "(", "effects", "\n",
      "(", "font", "(", "size", "1.27", "1.27", ")", ")", "\n", ")", "\n", ")",
      "\n", "(", "property", "\"", "Footprint", "\"", "\"">>
 \o Fmt(footprint_name)
 \o <<"\"", "\n", "(", "at", "0", "-10.16", "0", ")", "\n", "(", "effects", "\n",
      "(", "font", "(", "size", "1.27", "1.27", ")", ")", "\n", "(", "hide", "yes",
      ")", "\n", ")", "\n", ")", "\n", "(", "property", "\"", "Datasheet", "\"",
      "\"">>
 \o Fmt(datasheet)
 \o <<"\"", "\n", "(", "at", "-2.286", "0.127", "0", ")", "\n", "(", "effects",
      "\n", "(", "font", "(", "size", "1.27", "1.27", ")", ")", "\n", "(", "hide",
      "yes", ")", "\n", ")", "\n", ")", "\n", "(", "property", "\"", "Description",
      "\"", "\"">>
 \o Fmt(description)
 \o <<"\"", "\n", "(", "at", "0", "0", "0", ")", "\n", "(", "effects", "\n", "(",
      "font", "(", "size", "1.27", "1.27", ")", ")", "\n", "(", "hide", "yes", ")",
      "\n", ")", "\n", ")", "\n", "(", "property", "\"", "LCSC", "\"", "\"">>
 \o Fmt(lcsc_id)
 \o <<"\"", "\n", "(", "at", "0", "0", "0", ")", "\n", "(", "effects", "\n", "(",
      "font", "(", "size", "1.27", "1.27", ")", ")", "\n", "(", "hide", "yes", ")",
      "\n", ")", "\n", ")", "\n", "(", "property", "\"", "Manufacturer", "\"", "\"">>
 \o Fmt(manufacturer)
 \o <<"\"", "\n", "(", "at", "0", "0", "0", ")", "\n", "(", "effects", "\n", "(",
      "font", "(", "size", "1.27", "1.27", ")", ")", "\n", "(", "hide", "yes", ")",
      "\n", ")", "\n", ")">>
 \o drawing
 \o <<"\n", ")", "\n", ")", "\n">>

\* SymbolConverter._create_placeholder_symbol
PlaceholderSymbol(symbol_name, reference, value, description, datasheet, manufacturer, lcsc_id, footprint) ==
    <<"(", "kicad_symbol_lib", "\n", "(", "version", "20241209", ")", "\n", "(",
      "generator", "\"", "kicad_lcsc_manager", "\"", ")", "\n", "(",
      "generator_version", "\"", "1.0", "\"", ")", "\n", "(", "symbol", "\"">>
 \o Fmt(symbol_name)
 \o <<"\"", "\n", "(", "pin_names", "(", "offset", "1.016", ")", ")", "\n", "(",
      "exclude_from_sim", "no", ")", "\n", "(", "in_bom", "yes", ")", "\n", "(",
      "on_board", "yes", ")", "\n", "(", "property", "\"", "Reference", "\"", "\"">>
 \o Fmt(reference)
 \o <<"\"", "\n", "(", "at", "0", "5.08", "0", ")", "\n", "(", "effects", "\n", "(",
      "font", "(", "size", "1.27", "1.27", ")", ")", "\n", ")", "\n", ")", "\n",
      "(", "property", "\"", "Value", "\"", "\"">>
 \o Fmt(value)
 \o <<"\"", "\n", "(", "at", "0", "-5.08", "0", ")", "\n", "(", "effects", "\n",
      "(", "font", "(", "size", "1.27", "1.27", ")", ")", "\n", ")", "\n", ")",
      "\n", "(", "property", "\"", "Footprint", "\"", "\"">>
 \o Fmt(footprint)
 \o <<"\"", "\n", "(", "at", "0", "-7.62", "0", ")", "\n", "(", "effects", "\n",
      "(", "font", "(", "size", "1.27", "1.27", ")", ")", "\n", "(", "hide", "yes",
      ")", "\n", ")", "\n", ")", "\n", "(", "property", "\"", "Datasheet", "\"",
      "\"">>
 \o Fmt(datasheet)
 \o <<"\"", "\n", "(", "at", "0", "0", "0", ")", "\n", "(", "effects", "\n", "(",
      "font", "(", "size", "1.27", "1.27", ")", ")", "\n", "(", "hide", "yes", ")",
      "\n", ")", "\n", ")", "\n", "(", "property", "\"", "Description", "\"", "\"">>
 \o Fmt(description)
 \o <<"\"", "\n", "(", "at", "0", "0", "0", ")", "\n", "(", "effects", "\n", "(",
      "font", "(", "size", "1.27", "1.27", ")", ")", "\n", "(", "hide", "yes", ")",
      "\n", ")", "\n", ")", "\n", "(", "property", "\"", "Manufacturer", "\"", "\"">>
 \o Fmt(manufacturer)
 \o <<"\"", "\n", "(", "at", "0", "-10.16", "0", ")", "\n", "(", "effects", "\n",
      "(", "font", "(", "size", "1.27", "1.27", ")", ")", "\n", "(", "hide", "yes",
      ")", "\n", ")", "\n", ")", "\n", "(", "property", "\"", "LCSC", "\"", "\"">>
 \o Fmt(lcsc_id)
 \o <<"\"", "\n", "(", "at", "0", "-12.7", "0", ")", "\n", "(", "effects", "\n",
      "(", "font", "(", "size", "1.27", "1.27", ")", ")", "\n", "(", "hide", "yes",
      ")", "\n", ")", "\n", ")", "\n", "(", "symbol", "\"">>
 \o Fmt(symbol_name)
 \o <<"_0_1", "\"", "\n", "(", "rectangle", "\n", "(", "start", "-5.08", "3.81",
      ")", "\n", "(", "end", "5.08", "-3.81", ")", "\n", "(", "stroke", "\n", "(",
      "width", "0.254", ")", "\n", "(", "type", "default", ")", "\n", ")", "\n",
      "(", "fill", "\n", "(", "type", "background", ")", "\n", ")", "\n", ")", "\n",
      ")", "\n", "(", "symbol", "\"">>
 \o Fmt(symbol_name)
 \o <<"_1_1", "\"", "\n", "(", "pin", "unspecified", "line", "\n", "(", "at",
      "-7.62", "0", "0", ")", "\n", "(", "length", "2.54", ")", "\n", "(", "name",
      "\"", "1", "\"", "\n", "(", "effects", "\n", "(", "font", "(", "size", "1.27",
      "1.27", ")", ")", "\n", ")", "\n", ")", "\n", "(", "number", "\"", "1", "\"",
      "\n", "(", "effects", "\n", "(", "font", "(", "size", "1.27", "1.27", ")",
      ")", "\n", ")", "\n", ")", "\n", ")", "\n", "(", "pin", "unspecified", "line",
      "\n", "(", "at", "7.62", "0", "180", ")", "\n", "(", "length", "2.54", ")",
      "\n", "(", "name", "\"", "2", "\"", "\n", "(", "effects", "\n", "(", "font",
      "(", "size", "1.27", "1.27", ")", ")", "\n", ")", "\n", ")", "\n", "(",
      "number", "\"", "2", "\"", "\n", "(", "effects", "\n", "(", "font", "(",
      "size", "1.27", "1.27", ")", ")", "\n", ")", "\n", ")", "\n", ")", "\n", ")",
      "\n", ")", "\n", ")", "\n">>

\* FootprintConverter._create_placeholder_footprint
PlaceholderFootprint(footprint_name, description, package, lcsc_id) ==
    <<"(", "footprint", "\"">>
 \o Fmt(footprint_name)
 \o <<"\"", "(", "version", "20211014", ")", "(", "generator", "kicad_lcsc_manager",
      ")", "\n", "(", "layer", "\"", "F.Cu", "\"", ")", "\n", "(", "descr", "\"">>
 \o Fmt(package)
 \o <<"\"", ")", "\n", "(", "tags", "\"">>
 \o Fmt(package)
 \o <<"LCSC:">>
 \o Fmt(lcsc_id)
 \o <<"\"", ")", "\n", "(", "attr", "smd", ")", "\n", "(", "fp_text", "reference",
      "\"", "REF**", "\"", "(", "at", "0", "-2.5", ")", "(", "layer", "\"",
      "F.SilkS", "\"", ")", "\n", "(", "effects", "(", "font", "(", "size", "1",
      "1", ")", "(", "thickness", "0.15", ")", ")", ")", "\n", ")", "\n", "(",
      "fp_text", "value", "\"">>
 \o Fmt(footprint_name)
 \o <<"\"", "(", "at", "0", "2.5", ")", "(", "layer", "\"", "F.Fab", "\"", ")",
      "\n", "(", "effects", "(", "font", "(", "size", "1", "1", ")", "(",
      "thickness", "0.15", ")", ")", ")", "\n", ")", "\n", "(", "fp_text", "user",
      "\"">>
 \o Fmt(package)
 \o <<"\"", "(", "at", "0", "0", ")", "(", "layer", "\"", "F.Fab", "\"", ")", "\n",
      "(", "effects", "(", "font", "(", "size", "0.8", "0.8", ")", "(", "thickness",
      "0.12", ")", ")", ")", "\n", ")", "\n", "(", "fp_line", "(", "start", "-1.5",
      "-1", ")", "(", "end", "1.5", "-1", ")", "(", "layer", "\"", "F.SilkS", "\"",
      ")", "(", "width", "0.12", ")", ")", "\n", "(", "fp_line", "(", "start",
      "-1.5", "1", ")", "(", "end", "1.5", "1", ")", "(", "layer", "\"", "F.SilkS",
      "\"", ")", "(", "width", "0.12", ")", ")", "\n", "(", "fp_line", "(", "start",
      "-2", "-1.5", ")", "(", "end", "2", "-1.5", ")", "(", "layer", "\"",
      "F.CrtYd", "\"", ")", "(", "width", "0.05", ")", ")", "\n", "(", "fp_line",
      "(", "start", "-2", "1.5", ")", "(", "end", "-2", "-1.5", ")", "(", "layer",
      "\"", "F.CrtYd", "\"", ")", "(", "width", "0.05", ")", ")", "\n", "(",
      "fp_line", "(", "start", "2", "-1.5", ")", "(", "end", "2", "1.5", ")", "(",
      "layer", "\"", "F.CrtYd", "\"", ")", "(", "width", "0.05", ")", ")", "\n",
      "(", "fp_line", "(", "start", "2", "1.5", ")", "(", "end", "-2", "1.5", ")",
      "(", "layer", "\"", "F.CrtYd", "\"", ")", "(", "width", "0.05", ")", ")",
      "\n", "(", "fp_rect", "(", "start", "-1.2", "-0.8", ")", "(", "end", "1.2",
      "0.8", ")", "(", "layer", "\"", "F.Fab", "\"", ")", "(", "width", "0.1", ")",
      "(", "fill", "none", ")", ")", "\n", "(", "pad", "\"", "1", "\"", "smd",
      "rect", "(", "at", "-1", "0", ")", "(", "size", "0.8", "1.2", ")", "(",
      "layers", "\"", "F.Cu", "\"", "\"", "F.Paste", "\"", "\"", "F.Mask", "\"",
      ")", ")", "\n", "(", "pad", "\"", "2", "\"", "smd", "rect", "(", "at", "1",
      "0", ")", "(", "size", "0.8", "1.2", ")", "(", "layers", "\"", "F.Cu", "\"",
      "\"", "F.Paste", "\"", "\"", "F.Mask", "\"", ")", ")", "\n", "(", "model",
      "\"", "${KIPRJMOD}/libs/lcsc/3dmodels/">>
 \o Fmt(lcsc_id)
 \o <<".step", "\"", "\n", "(", "offset", "(", "xyz", "0", "0", "0", ")", ")", "\n",
      "(", "scale", "(", "xyz", "1", "1", "1", ")", ")", "\n", "(", "rotate", "(",
      "xyz", "0", "0", "0", ")", ")", "\n", ")", "\n", ")", "\n">>

(***************************************************************************)
(* symbol_handlers and footprint_handlers (converters/jlc2kicad): the      *)
(* handler tables and what a handler does with one line, after sections    *)
(* 4.2 and 4.3 of the specification: a handler decodes the fields as the   *)
(* shape decoder does and adds one directive, or raises and adds nothing.  *)
(***************************************************************************)
SymbolHandlerOpcodes == {"R", "E", "P", "PL", "PG"}

FootprintHandlerOpcodes == {"PAD", "TRACK", "CIRCLE", "RECT", "HOLE"}

RECURSIVE NumberTokens(_)
NumberTokens(nums) ==
    IF nums = <<>> THEN <<>> ELSE <<ToString(Head(nums))>> \o NumberTokens(Tail(nums))

RECURSIVE FlattenPoints(_)
FlattenPoints(points) ==
    IF points = <<>> THEN <<>> ELSE Head(points) \o FlattenPoints(Tail(points))

RecordNumbers(record) ==
    IF "coords" \in DOMAIN record THEN record.coords ELSE FlattenPoints(record.points)

\* the directive of one decoded record
Directive(record) ==
    <<"\n", "(", record.type>> \o NumberTokens(RecordNumbers(record)) \o <<")">>

SymbolHandler(model, data, tr) ==
    LET record == SymParseLine(<<model>> \o data, tr)
    IN  IF record = None THEN Raised ELSE Returned(Directive(record))

FootprintHandler(model, data, origin) ==
    LET record == FpParseLine(<<model>> \o data, origin)
    IN  IF record = None THEN Raised ELSE Returned(record)

\* footprint_handlers.mil2mm
Mil2Mm(v) == (v * 254) \div 1000

(***************************************************************************)
(* SymbolConverter                                                         *)
(***************************************************************************)
\* the loop over symbol_shape of _create_symbol_from_easyeda: the text added
\* to kicad_symbol.drawing
RECURSIVE SymbolShapeLoop(_, _)
SymbolShapeLoop(symbol_shape, tr) ==
    IF symbol_shape = <<>> THEN <<>>
    ELSE LET args   == Head(symbol_shape)
             model  == args[1]
             result == SymbolHandler(model, Tail(args), tr)
         IN  (IF model \in SymbolHandlerOpcodes /\ ~result.raised THEN result.value ELSE <<>>)
                \o SymbolShapeLoop(Tail(symbol_shape), tr)

\* float(dataStr["head"]["x"]), float(dataStr["head"]["y"]): KeyError or
\* ValueError
HeadTranslation(dataStr) ==
    IF "head" \notin DOMAIN dataStr THEN Raised
    ELSE IF "x" \notin DOMAIN dataStr.head \/ "y" \notin DOMAIN dataStr.head THEN Raised
    ELSE IF ~IsFloat(dataStr.head.x) \/ ~IsFloat(dataStr.head.y) THEN Raised
    ELSE Returned(<<Float(dataStr.head.x), Float(dataStr.head.y)>>)

\* _create_symbol_from_easyeda raising on a shape list without lines
CreateSymbolFromEasyedaNoLines(data, symbol_name, reference, info) ==
    IF "dataStr" \notin DOMAIN data THEN Raised
    ELSE IF "shape" \notin DOMAIN data.dataStr THEN Raised
    ELSE IF data.dataStr.shape = <<>> THEN Raised
    ELSE LET tr == HeadTranslation(data.dataStr)
             fr == GetFootprintReference(info)
         IN  IF tr.raised \/ fr.raised THEN Raised
             ELSE LET drawing ==
                          <<"\n", "(", "symbol", "\"">> \o symbol_name \o <<"_1_1", "\"">>
                             \o SymbolShapeLoop(data.dataStr.shape, tr.value)
                             \o <<"\n", ")">>
                  IN  Returned(CompleteSymbol(symbol_name, reference,
                                  DictGet(info, "description", <<>>), fr.value,
                                  DictGet(info, "datasheet", <<>>),
                                  DictGet(info, "lcsc_id", <<>>),
                                  DictGet(info, "manufacturer", <<>>), drawing))

CreateSymbolFromEasyeda(data, symbol_name, reference, info) ==
    IF "dataStr" \notin DOMAIN data THEN Raised
    ELSE IF "shape" \notin DOMAIN data.dataStr THEN Raised
    ELSE LET tr == HeadTranslation(data.dataStr)
             fr == GetFootprintReference(info)
         IN  IF tr.raised \/ fr.raised THEN Raised
             ELSE LET drawing ==
                          <<"\n", "(", "symbol", "\"">> \o symbol_name \o <<"_1_1", "\"">>
                             \o SymbolShapeLoop(data.dataStr.shape, tr.value)
                             \o <<"\n", ")">>
                  IN  Returned(CompleteSymbol(symbol_name, reference,
                                  DictGet(info, "description", <<>>), fr.value,
                                  DictGet(info, "datasheet", <<>>),
                                  DictGet(info, "lcsc_id", <<>>),
                                  DictGet(info, "manufacturer", <<>>), drawing))

\* SymbolConverter.convert: what the caller gets.  raised: an exception left
\* convert; used_fallback: the except branch ("Falling back to placeholder
\* symbol") produced the text.
SymbolConvert(data, info) ==
    LET name == GetSymbolName(info)
        ref  == GetReference(info)
        real == IF name.raised \/ ref.raised THEN Raised
                ELSE CreateSymbolFromEasyeda(data, name.value, ref.value, info)
        fr   == GetFootprintReference(info)
    IN  IF ~real.raised
        THEN [raised |-> FALSE, used_fallback |-> FALSE, text |-> real.value]
        ELSE IF name.raised \/ ref.raised \/ fr.raised
        THEN [raised |-> TRUE, used_fallback |-> TRUE, text |-> <<>>]
        ELSE [raised |-> FALSE, used_fallback |-> TRUE,
              text |-> PlaceholderSymbol(name.value, ref.value,
                          DictGet(info, "description", StrUnknown),
                          DictGet(info, "description", <<>>),
                          DictGet(info, "datasheet", <<>>),
                          DictGet(info, "manufacturer", <<>>),
                          DictGet(info, "lcsc_id", <<>>), fr.value)]

(***************************************************************************)
(* FootprintConverter                                                      *)
(***************************************************************************)
\* the loop over footprint_shape of _create_footprint_from_easyeda: the
\* children the handlers add to kicad_mod
RECURSIVE FootprintShapeLoop(_, _)
FootprintShapeLoop(footprint_shape, origin) ==
    IF footprint_shape = <<>> THEN <<>>
    ELSE LET args   == Head(footprint_shape)
             model  == args[1]
             result == FootprintHandler(model, Tail(args), origin)
         IN  (IF model \in FootprintHandlerOpcodes /\ ~result.raised
              THEN <<result.value>> ELSE <<>>)
                \o FootprintShapeLoop(Tail(footprint_shape), origin)

\* any(isinstance(child, Pad) ...) without the test of the pad type
IsThtPadAny(child) == child.type = "pad"

\* isinstance(child, Pad) and child.type == Pad.TYPE_THT
IsThtPad(child) == child.type = "pad" /\ child.hole_size > 0

SetMin(S) == CHOOSE m \in S : \A x \in S : m <= x

SetMax(S) == CHOOSE m \in S : \A x \in S : m >= x

\* FootprintInfo after the handlers and after the translation to the origin
FootprintBounds(children, tr) ==
    LET nums(i) == RecordNumbers(children[i])
        xs == UNION {{nums(i)[k] : k \in {j \in DOMAIN nums(i) : j % 2 = 1}} :
                        i \in DOMAIN children}
        ys == UNION {{nums(i)[k] : k \in {j \in DOMAIN nums(i) : j % 2 = 0}} :
                        i \in DOMAIN children}
    IN  [max_X |-> SetMax(xs \cup {-10000}) - Mil2Mm(tr[1]),
         max_Y |-> SetMax(ys \cup {-10000}) - Mil2Mm(tr[2]),
         min_X |-> SetMin(xs \cup {10000}) - Mil2Mm(tr[1]),
         min_Y |-> SetMin(ys \cup {10000}) - Mil2Mm(tr[2])]

RECURSIVE Directives(_)
Directives(children) ==
    IF children = <<>> THEN <<>> ELSE Directive(Head(children)) \o Directives(Tail(children))

\* Text(type=..., text=..., at=[x, y], layer=...) as KicadFileHandler writes it
TextNode(type, text, x, y, layer) ==
    <<"\n", "(", "fp_text", type>> \o text \o <<"(", "at", ToString(x), ToString(y), ")",
      "(", "layer", layer, ")", ")">>

\* KicadFileHandler(kicad_mod).serialize()
Serialize(footprint_name, tags, attribute, children, texts) ==
    <<"(", "footprint", "\"">> \o footprint_name \o <<"\"", "(", "layer", "F.Cu", ")",
      "\n", "(", "descr", "\"">> \o footprint_name \o <<"footprint", "\"", ")",
      "\n", "(", "tags", "\"">> \o tags \o <<"\"", ")",
      "\n", "(", "attr", attribute, ")">>
      \o Directives(children) \o texts \o <<"\n", ")", "\n">>

CreateFootprintFromEasyeda(data, footprint_name, info) ==
    IF "packageDetail" \notin DOMAIN data THEN Raised
    ELSE IF "dataStr" \notin DOMAIN data.packageDetail THEN Raised
    ELSE IF "shape" \notin DOMAIN data.packageDetail.dataStr THEN Raised
    ELSE LET tr == HeadTranslation(data.packageDetail.dataStr)
         IN  IF tr.raised THEN Raised
             ELSE LET children  == FootprintShapeLoop(data.packageDetail.dataStr.shape,
                                                      tr.value)
                      attribute == IF \E i \in DOMAIN children : IsThtPad(children[i])
                                   THEN "through_hole" ELSE "smd"
                      b         == FootprintBounds(children, tr.value)
                      texts     ==
                          TextNode("reference", <<"REF**">>,
                                   (b.min_X + b.max_X) \div 2, b.min_Y - 2, "F.SilkS")
                          \o TextNode("user", <<"${REFERENCE}">>,
                                   (b.min_X + b.max_X) \div 2, (b.min_Y + b.max_Y) \div 2,
                                   "F.Fab")
                          \o TextNode("value", footprint_name,
                                   (b.min_X + b.max_X) \div 2, b.max_Y + 2, "F.Fab")
                      tags      == footprint_name \o <<"footprint">>
                                      \o Fmt(DictGet(info, "lcsc_id", <<>>))
                  IN  Returned(Serialize(footprint_name, tags, attribute, children,
                                         texts))

\* FootprintConverter.convert; available: KICADMODTREE_AVAILABLE and
\* footprint_handlers
FootprintConvert(data, info, available) ==
    LET name        == GetFootprintName(info)
        placeholder == PlaceholderFootprint(name.value,
                          DictGet(info, "description", <<>>),
                          DictGet(info, "package", StrUnknown),
                          DictGet(info, "lcsc_id", <<>>))
        real        == IF name.raised THEN Raised
                       ELSE IF available
                       THEN CreateFootprintFromEasyeda(data, name.value, info)
                       ELSE Returned(placeholder)
    IN  IF ~real.raised
        THEN [raised |-> FALSE, used_fallback |-> ~available, text |-> real.value]
        ELSE IF name.raised
        THEN [raised |-> TRUE, used_fallback |-> TRUE, text |-> <<>>]
        ELSE [raised |-> FALSE, used_fallback |-> TRUE, text |-> placeholder]

(***************************************************************************)
(* Calls of the decoders and of the converters                             *)
(***************************************************************************)
ShapeArrays(lines) == SeqsUpTo(lines, MaxLines)

\* the metadata of a component as search_component builds it
SampleInfo ==
    [name         |-> <<"R", "1">>,
     description  |-> <<"R", "1">>,
     prefix       |-> <<"U", "?">>,
     manufacturer |-> <<"M">>,
     datasheet    |-> <<>>,
     lcsc_id      |-> <<"C", "1">>,
     package      |-> <<"S", "O", "T">>]

HeadOf(tr) == [x |-> ToString(tr[1]), y |-> ToString(tr[2])]

SymbolData(array, head) == [dataStr |-> [shape |-> array, head |-> head]]

FootprintData(array, head) ==
    [packageDetail |-> [dataStr |-> [shape |-> array, head |-> head]]]

CallSymbolParseShapes ==
    /\ pc = "idle"
    /\ \E array \in ShapeArrays(SymbolLines), tr \in Translations :
          /\ shape_array' = array
          /\ translation' = tr
          /\ shapes' = SymParseShapes(array, tr)
    /\ pc' = "SymbolPreviewRenderer._parse_shapes"
    /\ UNCHANGED <<wrlVars, convertVars, nameVars, libVars, apiVars, configVars, searchVars>>

CallFootprintParseShapes ==
    /\ pc = "idle"
    /\ \E array \in ShapeArrays(FootprintLines), tr \in Translations :
          /\ shape_array' = array
          /\ translation' = tr
          /\ shapes' = FpParseShapes(array, tr)
    /\ pc' = "FootprintPreviewRenderer._parse_shapes"
    /\ UNCHANGED <<wrlVars, convertVars, nameVars, libVars, apiVars, configVars, searchVars>>

CallSymbolConvert(datas, infos) ==
    /\ pc = "idle"
    /\ \E data \in datas, info \in infos :
          /\ easyeda_data' = data
          /\ component_info' = info
          /\ converted' = SymbolConvert(data, info)
    /\ pc' = "SymbolConverter.convert"
    /\ UNCHANGED <<wrlVars, decodeVars, kicadmodtree_available, nameVars, libVars,
                   apiVars, configVars, searchVars>>

CallFootprintConvert(datas, infos, installed) ==
    /\ pc = "idle"
    /\ \E data \in datas, info \in infos, a \in installed :
          /\ easyeda_data' = data
          /\ component_info' = info
          /\ kicadmodtree_available' = a
          /\ converted' = FootprintConvert(data, info, a)
    /\ pc' = "FootprintConverter.convert"
    /\ UNCHANGED <<wrlVars, decodeVars, nameVars, libVars, apiVars, configVars, searchVars>>

\* the four decoders on the same shape lists
NextDecode ==
    \/ CallSymbolParseShapes
    \/ CallFootprintParseShapes
    \/ CallSymbolConvert({SymbolData(array, HeadOf(<<0, 0>>)) :
                             array \in ShapeArrays(SymbolLines)}, {SampleInfo})
    \/ CallFootprintConvert({FootprintData(array, HeadOf(<<0, 0>>)) :
                                array \in ShapeArrays(FootprintLines)}, {SampleInfo}, {TRUE})

SpecDecode == Init /\ [][NextDecode]_vars

(***************************************************************************)
(* convert on every structure of the response and every metadata           *)
(***************************************************************************)
MaxConvertLines == 1

InfoKeys == DOMAIN SampleInfo

Without(info, key) == [k \in DOMAIN info \ {key} |-> info[k]]

\* what a metadata field can hold: null, the empty str, and strs with the
\* characters that matter to the text written
ComponentInfos ==
    LET MetadataValues ==
            { NoneStr, <<>>, <<"a", " ", "b">>, <<"\"", "(">>, <<")">>, <<"(", "a", ")">> }
    IN  {SampleInfo}
        \cup {Without(SampleInfo, key) : key \in InfoKeys}
        \cup {[SampleInfo EXCEPT ![key] = v] : key \in InfoKeys, v \in MetadataValues}
        \cup {[key \in InfoKeys |-> NoneStr]}

\* with the dataStr that have a key missing or a head float() rejects
DataStrs(lines) ==
    { [head |-> HeadOf(<<0, 0>>)],
      [shape |-> <<>>],
      [shape |-> <<>>, head |-> [x |-> "0"]],
      [shape |-> <<>>, head |-> [x |-> "x", y |-> "0"]] }
        \cup {[shape |-> array] : array \in SeqsUpTo(lines, MaxConvertLines)}
        \cup {[shape |-> array, head |-> HeadOf(tr)] :
                 array \in SeqsUpTo(lines, MaxConvertLines), tr \in Translations}

NextConvert ==
    \/ CallSymbolConvert({[uuid |-> "u"]} \cup {[dataStr |-> d] : d \in DataStrs(SymbolLines)},
                         ComponentInfos)
    \/ CallFootprintConvert({[uuid |-> "u"], [packageDetail |-> [uuid |-> "u"]]}
                                \cup {[packageDetail |-> [dataStr |-> d]] :
                                          d \in DataStrs(FootprintLines)},
                            ComponentInfos, BOOLEAN)

SpecConvert == Init /\ [][NextConvert]_vars

(***************************************************************************)
(* Claims on the shape decoders                                            *)
(***************************************************************************)
\* the opcodes of the if/elif chains of the two _parse_shapes
SymbolPreviewOpcodes == {"R", "E", "P", "PL", "PG"}

FootprintPreviewOpcodes == {"PAD", "TRACK", "CIRCLE", "RECT", "HOLE"}

SymbolPreviewCalled == pc = "SymbolPreviewRenderer._parse_shapes"

FootprintPreviewCalled == pc = "FootprintPreviewRenderer._parse_shapes"

SymbolConvertCalled == pc = "SymbolConverter.convert"

FootprintConvertCalled == pc = "FootprintConverter.convert"

\* the shape list the called decoder walked
ShapeList ==
    IF SymbolPreviewCalled \/ FootprintPreviewCalled THEN shape_array
    ELSE IF SymbolConvertCalled THEN easyeda_data.dataStr.shape
    ELSE IF FootprintConvertCalled THEN easyeda_data.packageDetail.dataStr.shape
    ELSE <<>>

OpcodeTable ==
    IF SymbolPreviewCalled THEN SymbolPreviewOpcodes
    ELSE IF FootprintPreviewCalled THEN FootprintPreviewOpcodes
    ELSE IF SymbolConvertCalled THEN SymbolHandlerOpcodes
    ELSE FootprintHandlerOpcodes

\* the decode did not fail: the previews returned their list, the
\* converters returned the text of the real path
DecodeDone ==
    /\ pc # "idle"
    /\ (SymbolPreviewCalled \/ FootprintPreviewCalled) => DOMAIN shapes = 1..Len(shapes)
    /\ (SymbolConvertCalled \/ FootprintConvertCalled) =>
          ~converted.raised /\ ~converted.used_fallback

\* what the called decoder produced is what it produces for the list other
DecodesAs(other) ==
    /\ SymbolPreviewCalled => shapes = SymParseShapes(other, translation)
    /\ FootprintPreviewCalled => shapes = FpParseShapes(other, translation)
    /\ SymbolConvertCalled =>
          converted = SymbolConvert(SymbolData(other, easyeda_data.dataStr.head),
                                    component_info)
    /\ FootprintConvertCalled =>
          converted = FootprintConvert(
                          FootprintData(other, easyeda_data.packageDetail.dataStr.head),
                          component_info, kicadmodtree_available)

UnknownOpcodeAt(i) == ShapeList[i][1] \notin OpcodeTable

IsGoodLine(line) == line \in SymbolGoodLines \cup FootprintGoodLines

IsBadLine(line) == line \in SymbolBadLines \cup FootprintBadLines

\* C1: a line whose opcode is in no handler table does not make the decode
\* fail, and what the decoder produces is what it produces for the list
\* without that line; for the symbol converter, the footprint converter and
\* both preview decoders
C1_UnknownOpcodeSkipped ==
    pc # "idle" =>
        \A i \in DOMAIN ShapeList :
            UnknownOpcodeAt(i) => DecodeDone /\ DecodesAs(RemoveAt(ShapeList, i))

\* the symbol converter walked a list with an unknown opcode between two
\* lines that give a record
C1_Witness ==
    /\ SymbolConvertCalled
    /\ Len(ShapeList) = 3
    /\ IsGoodLine(ShapeList[1])
    /\ ShapeList[2][1] = "T"
    /\ IsGoodLine(ShapeList[3])

\* C2: a line with a recognized opcode and too few fields or a non-numeric
\* field does not make the decode fail; what the decoder produces is what
\* it produces without that line, and every well-formed line of the list
\* still gives its record
C2_MalformedLineSkipped ==
    pc # "idle" =>
        /\ \A i \in DOMAIN ShapeList :
              IsBadLine(ShapeList[i]) => DecodeDone /\ DecodesAs(RemoveAt(ShapeList, i))
        /\ (\E i \in DOMAIN ShapeList : IsBadLine(ShapeList[i])) =>
              /\ DecodesAs(SelectSeq(ShapeList, IsGoodLine))
              /\ (SymbolPreviewCalled \/ FootprintPreviewCalled) =>
                    Len(shapes) = Len(SelectSeq(ShapeList, IsGoodLine))

\* the symbol preview decoder walked a list with a rectangle whose y is not
\* a number between two lines that give a record
C2_Witness ==
    /\ SymbolPreviewCalled
    /\ Len(shape_array) = 3
    /\ IsGoodLine(shape_array[1])
    /\ shape_array[2] = <<"R", "0", "x", "10", "20">>
    /\ IsGoodLine(shape_array[3])
    /\ Len(shapes) = 2

(***************************************************************************)
(* _get_symbol_name on one description                                     *)
(***************************************************************************)
MaxStrLen == 2

\* the eight characters replaced, a character that a replacement writes,
\* and a character left alone
ShortNames == SeqsUpTo({" ", ".", "/", "\\", "<", ">", ":", "\"", "_", "a"}, MaxStrLen)

\* printable ASCII strings: the short ones and the ones the sanitization
\* writes
NameStrings == ShortNames \cup {Sanitize(n) : n \in ShortNames}

CallGetSymbolName ==
    /\ pc = "idle"
    /\ \E description \in NameStrings :
          /\ raw_name' = description
          /\ sanitized_name' = GetSymbolName([description |-> description]).value
    /\ pc' = "_get_symbol_name"
    /\ UNCHANGED <<wrlVars, decodeVars, convertVars, libVars, apiVars, configVars, searchVars>>

NextSanitize == CallGetSymbolName

SpecSanitize == Init /\ [][NextSanitize]_vars

(***************************************************************************)
(* Claims on convert and on the names                                      *)
(***************************************************************************)
ConvertCalled == SymbolConvertCalled \/ FootprintConvertCalled

\* pattern is a run of consecutive tokens of text
Contains(text, pattern) ==
    \E i \in 1..(Len(text) - Len(pattern) + 1) :
        SubSeq(text, i, i + Len(pattern) - 1) = pattern

Count(text, token) == Cardinality({i \in DOMAIN text : text[i] = token})

\* the body of the placeholder symbol: the rectangle and the pins named 1 and 2
IsPlaceholderSymbol(text) ==
    /\ Contains(text, <<"(", "rectangle">>)
    /\ Contains(text, <<"(", "name", "\"", "1", "\"">>)
    /\ Contains(text, <<"(", "name", "\"", "2", "\"">>)

\* the body of the placeholder footprint: the two smd pads
IsPlaceholderFootprint(text) ==
    /\ Contains(text, <<"(", "pad", "\"", "1", "\"", "smd", "rect">>)
    /\ Contains(text, <<"(", "pad", "\"", "2", "\"", "smd", "rect">>)

IsPlaceholder(text) ==
    IF SymbolConvertCalled THEN IsPlaceholderSymbol(text) ELSE IsPlaceholderFootprint(text)

\* the dataStr convert looked at, if the response has one
CalledDataStr ==
    IF SymbolConvertCalled
    THEN DictGet(easyeda_data, "dataStr", [uuid |-> "u"])
    ELSE DictGet(DictGet(easyeda_data, "packageDetail", [uuid |-> "u"]),
                 "dataStr", [uuid |-> "u"])

ZeroShapeLines ==
    /\ ConvertCalled
    /\ "shape" \in DOMAIN CalledDataStr
    /\ CalledDataStr.shape = <<>>

\* C3: convert never lets an exception reach the caller, whatever the
\* response and the metadata hold (keys missing, fields null); it returns
\* a document, the placeholder one when the real conversion was not done
C3_ConvertNeverRaises ==
    ConvertCalled =>
        /\ ~converted.raised
        /\ converted.used_fallback => IsPlaceholder(converted.text)

SameName(other) == GetSymbolName([description |-> other]).value = sanitized_name

\* C5 as stated: no other printable ASCII string sanitizes to the name
\* returned for this one
C5_SanitizeInjective ==
    pc = "_get_symbol_name" =>
        \A other \in NameStrings : SameName(other) => other = raw_name

\* a name without ".", "_" and "{"
Plain(str) == \A i \in DOMAIN str : str[i] \notin {".", "_", "{"}

\* C5: on the strings without ".", "_" and "{" the sanitization is
\* injective: no other such string gives the name returned for this one
C5_SanitizeInjectiveOnPlain ==
    (pc = "_get_symbol_name" /\ Plain(raw_name)) =>
        \A other \in NameStrings : (Plain(other) /\ SameName(other)) => other = raw_name

\* a plain description with two replaced characters was sanitized
C5_Witness ==
    /\ pc = "_get_symbol_name"
    /\ raw_name = <<"/", " ">>
    /\ sanitized_name = <<"{", "s", "l", "a", "s", "h", "}", "_">>

RequiredProperties ==
    {"Reference", "Value", "Footprint", "Datasheet", "Description", "Manufacturer", "LCSC"}

PropertyBlocks(text, field) ==
    Cardinality({i \in 1..(Len(text) - 4) :
                    SubSeq(text, i, i + 4) = <<"(", "property", "\"", field, "\"">>})

\* C6: the text convert returns has as many "(" as ")", and the symbol
\* text has exactly one property block for each of the seven fields
C6_BalancedOneBlockPerField ==
    (ConvertCalled /\ ~converted.raised) =>
        /\ Count(converted.text, "(") = Count(converted.text, ")")
        /\ SymbolConvertCalled =>
              \A field \in RequiredProperties : PropertyBlocks(converted.text, field) = 1

(***************************************************************************)
(* Claims on the attribute of the footprint, the origin and the points     *)
(***************************************************************************)
HasAttr(text, attribute) == Contains(text, <<"(", "attr", attribute, ")">>)

\* a PAD line that decodes and whose hole field is a number above 0
IsHolePadLine(line) ==
    /\ line \in FootprintGoodLines
    /\ line[1] = "PAD"
    /\ Len(line) > 8
    /\ Float(line[9]) > 0

HasHolePad(array) == \E i \in DOMAIN array : IsHolePadLine(array[i])

FootprintReturned ==
    /\ FootprintConvertCalled
    /\ ~converted.raised
    /\ "shape" \in DOMAIN CalledDataStr

\* C15 as stated: whichever path wrote the document, the footprint is
\* attributed through_hole exactly when a pad of the drawing has a hole
C15_AttrFromPads ==
    FootprintReturned =>
        /\ HasAttr(converted.text, "through_hole") <=> HasHolePad(CalledDataStr.shape)
        /\ HasAttr(converted.text, "smd") <=> ~HasHolePad(CalledDataStr.shape)

\* C15: the document of the real path is attributed through_hole exactly
\* when a decoded pad of the drawing has a hole diameter above 0, and smd
\* otherwise; the placeholder document is always attributed smd
C15_AttrFromPadsOnRealPath ==
    FootprintReturned =>
        IF converted.used_fallback
        THEN HasAttr(converted.text, "smd") /\ ~HasAttr(converted.text, "through_hole")
        ELSE /\ HasAttr(converted.text, "through_hole") <=> HasHolePad(CalledDataStr.shape)
             /\ HasAttr(converted.text, "smd") <=> ~HasHolePad(CalledDataStr.shape)

\* the real path wrote the footprint of a drawing with a pad with a hole
C15_Witness ==
    /\ FootprintReturned
    /\ ~converted.used_fallback
    /\ HasHolePad(CalledDataStr.shape)
    /\ HasAttr(converted.text, "through_hole")

\* the drawing has shape lines and its head lacks x or y
HeadAbsent ==
    /\ ConvertCalled
    /\ "shape" \in DOMAIN CalledDataStr
    /\ \/ "head" \notin DOMAIN CalledDataStr
       \/ "x" \notin DOMAIN CalledDataStr.head
       \/ "y" \notin DOMAIN CalledDataStr.head

\* the drawing with 0 for the coordinates its head lacks
WithDefaultHead(dataStr) ==
    LET head == DictGet(dataStr, "head", [uuid |-> "u"])
    IN  [shape |-> dataStr.shape,
         head  |-> [x |-> DictGet(head, "x", "0"), y |-> DictGet(head, "y", "0")]]

\* C16: a drawing whose head carries no origin is converted as the same
\* drawing with the origin (0,0)
C16_OriginDefaultsToZero ==
    (HeadAbsent /\ ~converted.raised) =>
        /\ SymbolConvertCalled =>
              converted = SymbolConvert([dataStr |-> WithDefaultHead(CalledDataStr)],
                                        component_info)
        /\ FootprintConvertCalled =>
              converted = FootprintConvert(
                              [packageDetail |-> [dataStr |-> WithDefaultHead(CalledDataStr)]],
                              component_info, kicadmodtree_available)

IsShortLine(line) == line \in SymbolShortLines \cup FootprintShortLines

\* C17: every record with points that a decoder returns has at least two
\* points, and a line whose point string has fewer than two complete pairs
\* leaves no record: the result is the one of the list without that line
C17_AtLeastTwoPoints ==
    pc # "idle" =>
        /\ (SymbolPreviewCalled \/ FootprintPreviewCalled) =>
              \A k \in DOMAIN shapes :
                  "points" \in DOMAIN shapes[k] => Len(shapes[k].points) >= 2
        /\ \A i \in DOMAIN ShapeList :
              IsShortLine(ShapeList[i]) => DecodesAs(RemoveAt(ShapeList, i))

\* the symbol preview decoder walked a polyline of one point and a polyline
\* of two, and returned one record
C17_Witness ==
    /\ SymbolPreviewCalled
    /\ shape_array = << <<"PL", "0 0">>, <<"PL", "0 0 10 10">> >>
    /\ Len(shapes) = 1
    /\ Len(shapes[1].points) = 2

(***************************************************************************)
(* The library files: SymbolConverter.save_to_library,                     *)
(* FootprintConverter.save_to_library and LibraryManager.import_component  *)
(*                                                                         *)
(* A file is the sequence of the tokens of its text, as the documents are; *)
(* the blanks of the indentation are not tokens, so two ")" tokens in a    *)
(* row stand for ")" characters that str.rstrip(')') removes together only *)
(* where the text has no blank between them: the documents of the plugin   *)
(* end every line that closes an element with "\n".                        *)
(***************************************************************************)
MaxCalls == 2

\* str.rstrip()
RECURSIVE RStrip(_)
RStrip(text) ==
    IF text # <<>> /\ text[Len(text)] \in {"\n", " ", "\t"}
    THEN RStrip(SubSeq(text, 1, Len(text) - 1))
    ELSE text

\* str.lstrip(); str.strip() is the two together
RECURSIVE LStrip(_)
LStrip(text) ==
    IF text # <<>> /\ Head(text) \in {"\n", " ", "\t"} THEN LStrip(Tail(text)) ELSE text

\* str.rstrip(char): every trailing char goes
RECURSIVE RStripChar(_, _)
RStripChar(text, char) ==
    IF text # <<>> /\ text[Len(text)] = char
    THEN RStripChar(SubSeq(text, 1, Len(text) - 1), char)
    ELSE text

\* str.startswith(prefix)
StartsWith(text, prefix) ==
    Len(text) >= Len(prefix) /\ SubSeq(text, 1, Len(prefix)) = prefix

\* str.find(pattern, i - 1): the 0-based index of the first occurrence at
\* or after the position i, or -1
RECURSIVE Find(_, _, _)
Find(text, pattern, i) ==
    IF i + Len(pattern) - 1 > Len(text) THEN -1
    ELSE IF SubSeq(text, i, i + Len(pattern) - 1) = pattern THEN i - 1
    ELSE Find(text, pattern, i + 1)

\* str.rfind(pattern): the 0-based index of the last occurrence that starts at
\* or before the position i, or -1
RECURSIVE RFind(_, _, _)
RFind(text, pattern, i) ==
    IF i < 1 THEN -1
    ELSE IF i + Len(pattern) - 1 <= Len(text)
               /\ SubSeq(text, i, i + Len(pattern) - 1) = pattern THEN i - 1
    ELSE RFind(text, pattern, i - 1)

\* text[start:end], the indexes clamped as Python does
Slice(text, start, end) ==
    LET n      == Len(text)
        lo == IF start < 0 THEN (IF start + n < 0 THEN 0 ELSE start + n)
              ELSE (IF start > n THEN n ELSE start)
        hi == IF end < 0 THEN (IF end + n < 0 THEN 0 ELSE end + n)
              ELSE (IF end > n THEN n ELSE end)
    IN  SubSeq(text, lo + 1, hi)

LibraryHeader == <<"(", "kicad_symbol_lib">>

\* symbol_def of save_to_library: the document without its wrapper
SymbolDef(symbol_content) ==
    IF Find(symbol_content, LibraryHeader, 1) # -1
    THEN Slice(symbol_content, Find(symbol_content, <<"(", "symbol">>, 1),
               RFind(symbol_content, <<")">>, Len(symbol_content)))
    ELSE symbol_content

\* SymbolConverter.save_to_library; the disk is writable.  With a file that
\* does not start with the header, append becomes False and content is left
\* unassigned: open(library_path, 'w') has emptied the file when
\* f.write(content) raises UnboundLocalError, which leaves as IOError
SymbolSaveToLibrary(file, symbol_content, append) ==
    IF append /\ file # Absent
    THEN IF ~StartsWith(LStrip(RStrip(file)), LibraryHeader)
         THEN [raised |-> TRUE, file |-> <<>>]
         ELSE [raised |-> FALSE,
               file   |-> RStripChar(RStrip(file), ")") \o <<"\n">>
                             \o SymbolDef(symbol_content) \o <<"\n", ")", "\n">>]
    ELSE [raised |-> FALSE, file |-> symbol_content]

\* what save_to_library leaves in the record of the saves
SavedAfter(file, data, info, append, outcome) ==
    IF outcome.raised THEN <<>>
    ELSE IF append /\ file # Absent
    THEN Append(saved, [data |-> data, info |-> info, append |-> append])
    ELSE <<[data |-> data, info |-> info, append |-> append]>>

\* FootprintConverter.save_to_library: footprints.pretty/<name>.kicad_mod
FootprintSaveToLibrary(files, footprint_content, footprint_name) ==
    {f \in files : f.name # footprint_name}
        \cup {[name |-> footprint_name, content |-> footprint_content]}

(***************************************************************************)
(* LibraryManager.import_component                                         *)
(***************************************************************************)
\* LibraryManager._import_symbol
ImportSymbol(file, data, info) ==
    LET Saved(symbol_content, outcome, symbol_name) ==
          IF symbol_content.raised
          THEN [raised |-> TRUE, value |-> <<>>, file |-> file, saved |-> saved]
          ELSE IF outcome.raised
          THEN [raised |-> TRUE, value |-> <<>>, file |-> outcome.file, saved |-> <<>>]
          ELSE [raised |-> symbol_name.raised, value |-> symbol_name.value,
                file   |-> outcome.file,
                saved  |-> SavedAfter(file, data, info, TRUE, outcome)]
        WithDocument(symbol_content) ==
          Saved(symbol_content,
                SymbolSaveToLibrary(file, symbol_content.text, TRUE),
                GetSymbolName(info))
    IN  WithDocument(SymbolConvert(data, info))

\* LibraryManager._import_footprint
ImportFootprint(files, data, info, installed) ==
    LET Saved(footprint_content, footprint_name) ==
          IF footprint_content.raised \/ footprint_name.raised
          THEN [raised |-> TRUE, value |-> <<>>, files |-> files]
          ELSE [raised |-> FALSE, value |-> footprint_name.value,
                files  |-> FootprintSaveToLibrary(files, footprint_content.text,
                                                  footprint_name.value)]
    IN  Saved(FootprintConvert(data, info, installed), GetFootprintName(info))

\* json.loads of the second field of a SVGNODE line: the uuid of attrs, ""
\* when there is none, and "<error>" when the field is not JSON
SvgNodeJson ==
    [field \in {"{\"attrs\":{\"uuid\":\"u1\"}}", "{\"attrs\":{}}", "{"} |->
        IF field = "{\"attrs\":{\"uuid\":\"u1\"}}" THEN "u1"
        ELSE IF field = "{\"attrs\":{}}" THEN ""
        ELSE "<error>"]

\* the loop of _extract_3d_model_uuid: the uuid of the first SVGNODE line
\* that carries one, or ""
RECURSIVE FirstUuid(_)
FirstUuid(array) ==
    IF array = <<>> THEN ""
    ELSE LET parts == Head(array)
         IN  IF Len(parts) >= 2 /\ parts[1] = "SVGNODE"
                   /\ SvgNodeJson[parts[2]] \notin {"", "<error>"}
             THEN SvgNodeJson[parts[2]]
             ELSE FirstUuid(Tail(array))

\* Model3DConverter._extract_3d_model_uuid
Extract3dModelUuid(data) ==
    IF "packageDetail" \notin DOMAIN data THEN ""
    ELSE IF "dataStr" \notin DOMAIN data.packageDetail THEN ""
    ELSE IF "shape" \notin DOMAIN data.packageDetail.dataStr THEN ""
    ELSE FirstUuid(data.packageDetail.dataStr.shape)

\* f"{lcsc_id}.wrl" and f"{lcsc_id}.step"
ModelFile(info, format) ==
    Fmt(DictGet(info, "lcsc_id", <<"u", "n", "k", "n", "o", "w", "n">>))
        \o <<IF format = "wrl" THEN ".wrl" ELSE ".step">>

\* Model3DConverter.process_component_model: the formats it wrote.  obj is
\* what _download_obj returned (None or the OBJ document) and step whether
\* _download_step returned content; disk is the state of the 3dmodels
\* directory: "writable", "wrl read-only" when <lcsc_id>.wrl is there and
\* cannot be opened for writing (the open raises, the except clause around
\* the WRL part logs it), and "no directory" when output_dir.mkdir raises,
\* which leaves process_component_model as IOError
ProcessComponentModel(data, info, obj, step, disk) ==
    IF disk = "no directory" THEN [raised |-> TRUE, formats |-> {}]
    ELSE IF Extract3dModelUuid(data) = "" THEN [raised |-> FALSE, formats |-> {}]
    ELSE [raised  |-> FALSE,
          formats |-> (IF step THEN {"step"} ELSE {})
                         \cup (IF obj # None /\ ConvertObjToWrl(obj) # None
                                  /\ disk = "writable"
                               THEN {"wrl"} ELSE {})]

\* LibraryManager._import_3d_model: the models dictionary, as the set of
\* its entries, and the 3dmodels directory; when nothing was downloaded
\* create_placeholder_model writes <lcsc_id>.wrl and returns True, or
\* returns False when the write raises, and models stays empty
Import3dModel(dir, data, info, obj, step, disk) ==
    LET Models(processed) ==
          LET formats == IF processed.formats # {} THEN processed.formats
                         ELSE IF disk = "writable" THEN {"wrl"}
                         ELSE {}
          IN  IF processed.raised THEN [raised |-> TRUE, value |-> {}, dir |-> dir]
              ELSE [raised |-> FALSE,
                    value  |-> {[format |-> f, path |-> ModelFile(info, f)] : f \in formats},
                    dir    |-> dir \cup {ModelFile(info, f) : f \in formats}]
    IN  Models(ProcessComponentModel(data, info, obj, step, disk))

\* self.config.get("symbol_lib_nickname"): DEFAULT_CONFIG has no such key
SymbolLibNickname == NoneStr

\* a registration that a failed part would prevent: no table is written
UpdateLibTableSkipped(table, root, lib_name, lib_path, descr) == table

\* the body of _update_symbol_lib_table and of _update_footprint_lib_table:
\* `lib_name in content` raises TypeError for the lib_name None, the except
\* branch logs it and the table stays as it is
UpdateLibTable(table, root, lib_name, lib_path, descr) ==
    LET entry ==
          <<"(", "lib", "(", "name", "\"">> \o Fmt(lib_name)
             \o <<"\"", ")", "(", "type", "\"", "KiCad", "\"", ")", "(", "uri", "\"",
                  lib_path, "\"", ")", "(", "options", "\"", "\"", ")", "(", "descr",
                  "\"", descr, "\"", ")", ")", "\n", ")", "\n">>
    IN  IF table # Absent
        THEN IF lib_name = NoneStr THEN table
             ELSE IF Find(table, lib_name, 1) # -1 THEN table
             ELSE RStripChar(RStrip(table), ")") \o <<"\n">> \o entry
        ELSE <<"(", root, "\n">> \o entry

UpdateSymbolLibTable(table) ==
    UpdateLibTable(table, "sym_lib_table", SymbolLibNickname,
                   "${KIPRJMOD}/libs/lcsc/symbols/lcsc_imported.kicad_sym",
                   "LCSC imported components")

UpdateFootprintLibTable(table) ==
    UpdateLibTable(table, "fp_lib_table", FootprintLibNickname,
                   "${KIPRJMOD}/libs/lcsc/footprints.pretty",
                   "LCSC imported footprints")

\* import_component: the three parts in their try blocks, then the tables;
\* results[part] stays None for a part that was not requested or that raised
ImportComponent(data, info, installed, obj, step, disk, import_symbol, import_footprint, import_3d) ==
    LET Part(requested, part) ==
          IF requested /\ ~part.raised
          THEN [raised |-> FALSE, value |-> part.value]
          ELSE [raised |-> TRUE, value |-> <<>>]
        Failed(requested, part, message) ==
          IF requested /\ part.raised THEN <<message>> ELSE <<>>
        Done(symbol, footprint, model_3d) ==
          /\ symbol_lib_path' = IF import_symbol THEN symbol.file ELSE symbol_lib_path
          /\ saved' = IF import_symbol THEN symbol.saved ELSE saved
          /\ footprint_lib_path' =
                IF import_footprint THEN footprint.files ELSE footprint_lib_path
          /\ model_3d_path' = IF import_3d THEN model_3d.dir ELSE model_3d_path
          /\ sym_lib_table' = UpdateSymbolLibTable(sym_lib_table)
          /\ fp_lib_table' = UpdateFootprintLibTable(fp_lib_table)
          /\ results' =
                [call             |-> "import_component",
                 import_symbol    |-> import_symbol,
                 import_footprint |-> import_footprint,
                 import_3d        |-> import_3d,
                 symbol           |-> Part(import_symbol, symbol),
                 footprint        |-> Part(import_footprint, footprint),
                 model_3d         |-> [raised |-> ~import_3d \/ model_3d.raised,
                                       value  |-> IF import_3d THEN model_3d.value ELSE {}],
                 errors           |-> Failed(import_symbol, symbol, "Symbol import failed")
                                      \o Failed(import_footprint, footprint,
                                                "Footprint import failed")
                                      \o Failed(import_3d, model_3d,
                                                "3D model import failed"),
                 success          |-> /\ (~import_symbol \/ ~symbol.raised)
                                      /\ (~import_footprint \/ ~footprint.raised)
                                      /\ (~import_3d \/ ~model_3d.raised)]
    IN  Done(ImportSymbol(symbol_lib_path, data, info),
             ImportFootprint(footprint_lib_path, data, info, installed),
             Import3dModel(model_3d_path, data, info, obj, step, disk))

(***************************************************************************)
(* Calls on one project                                                    *)
(***************************************************************************)
\* a response with the drawings of the symbol and of the package
Response(symbol_array, package_array, head) ==
    [dataStr       |-> [shape |-> symbol_array, head |-> head],
     packageDetail |-> [dataStr |-> [shape |-> package_array, head |-> head]]]

\* a response with a 3D model, one without, and one with nothing to draw from
LibraryDatas ==
    { Response(<< <<"R", "0", "0", "10", "20">> >>,
               << <<"PAD", "OVAL", "10", "10", "20", "10", "11", "", "5">>,
                  <<"SVGNODE", "{\"attrs\":{\"uuid\":\"u1\"}}">> >>,
               HeadOf(<<0, 0>>)),
      Response(<< <<"R", "0", "0", "10", "20">> >>,
               << <<"PAD", "OVAL", "10", "10", "20", "10", "11", "", "5">> >>,
               HeadOf(<<0, 0>>)),
      [uuid |-> "u"] }

\* two components, the second with a blank in its description, one whose
\* description closes the string it is written into, and one without
\* encapStandard
LibraryInfos ==
    { SampleInfo,
      [SampleInfo EXCEPT !.description = <<"R", " ", "2">>, !.lcsc_id = <<"C", "2">>],
      [SampleInfo EXCEPT !.description = <<"\"", "(">>, !.lcsc_id = <<"C", "3">>],
      [SampleInfo EXCEPT !.package = NoneStr] }

\* a library file and the tables as another program left them: a file with
\* another header, an empty file, and a library and tables of KiCad
ProjectFiles ==
    { [library |-> <<"(", "footprint", "\"", "x", "\"", ")", "\n">>,
       sym_table |-> Absent, fp_table |-> Absent],
      [library |-> <<>>,
       sym_table |-> <<"(", "sym_lib_table", "\n", ")", "\n">>,
       fp_table |-> <<"(", "fp_lib_table", "\n", ")", "\n">>],
      [library |-> <<"(", "kicad_symbol_lib", "\n", "(", "version", "20241209", ")",
                     "\n", ")", "\n">>,
       sym_table |-> <<"(", "sym_lib_table", "\n", "(", "lib", "(", "name", "\"", "mine",
                       "\"", ")", ")", "\n", ")", "\n">>,
       fp_table |-> <<"(", "fp_lib_table", "\n", "(", "lib", "(", "name", "\"", "mine",
                      "\"", ")", ")", "\n", ")", "\n">>] }

\* the project directory as the plugin finds it when it is not empty
ExistingProjectFiles ==
    /\ pc = "idle"
    /\ calls = 0
    /\ \E files \in ProjectFiles :
          /\ symbol_lib_path' = files.library
          /\ sym_lib_table' = files.sym_table
          /\ fp_lib_table' = files.fp_table
          /\ saved' = <<[data |-> None, info |-> None, append |-> FALSE]>>
    /\ pc' = "project"
    /\ UNCHANGED <<wrlVars, decodeVars, convertVars, nameVars, footprint_lib_path,
                   model_3d_path, results, calls, apiVars, configVars, searchVars>>

\* save_to_library with the document convert returned for a response
CallSaveToLibrary ==
    /\ calls < MaxCalls
    /\ \E data \in LibraryDatas, info \in LibraryInfos, append \in BOOLEAN :
          LET Saved(symbol_content, outcome) ==
                /\ ~symbol_content.raised
                /\ easyeda_data' = data
                /\ component_info' = info
                /\ symbol_lib_path' = outcome.file
                /\ saved' = SavedAfter(symbol_lib_path, data, info, append, outcome)
                /\ results' =
                      [call   |-> "save_to_library",
                       append |-> append,
                       exists |-> symbol_lib_path # Absent,
                       header |-> /\ symbol_lib_path # Absent
                                  /\ StartsWith(LStrip(RStrip(symbol_lib_path)),
                                                LibraryHeader),
                       raised |-> outcome.raised]
              WithDocument(symbol_content) ==
                Saved(symbol_content,
                      SymbolSaveToLibrary(symbol_lib_path, symbol_content.text, append))
          IN  WithDocument(SymbolConvert(data, info))
    /\ pc' = "SymbolConverter.save_to_library"
    /\ calls' = calls + 1
    /\ UNCHANGED <<wrlVars, decodeVars, kicadmodtree_available, converted, nameVars,
                   footprint_lib_path, model_3d_path, sym_lib_table, fp_lib_table,
                   apiVars, configVars, searchVars>>

\* what the network returns for the two downloads: nothing, an OBJ document
\* that converts and a STEP model, or an OBJ document _convert_obj_to_wrl
\* returns None for, a face of it referring to a vertex that is not there
Downloads ==
    { [obj |-> None, step |-> FALSE],
      [obj  |-> [mtl |-> ObjMaterialBlocks, v |-> ObjVertexLines,
                 shapes |-> << [material |-> "m1", faces |-> << <<1, 2>> >>] >>],
       step |-> TRUE],
      [obj  |-> [mtl |-> ObjMaterialBlocks, v |-> ObjVertexLines,
                 shapes |-> << [material |-> "m1",
                                faces |-> << <<1, NumVertices + 1>> >>] >>],
       step |-> FALSE] }

\* KICADMODTREE_AVAILABLE is read by the footprint part alone, and the
\* network and the 3dmodels directory by the 3D part alone; without the
\* directory nothing is downloaded
CallImportComponent ==
    /\ calls < MaxCalls
    /\ \E data \in LibraryDatas, info \in LibraryInfos,
          request \in { <<TRUE, TRUE, TRUE>>, <<TRUE, FALSE, FALSE>>,
                        <<FALSE, TRUE, FALSE>>, <<FALSE, FALSE, TRUE>> } :
          \E installed \in (IF request[2] THEN BOOLEAN ELSE {kicadmodtree_available}),
             download \in (IF request[3] THEN Downloads
                           ELSE {[obj |-> None, step |-> FALSE]}),
             disk \in (IF request[3]
                       THEN {"writable", "wrl read-only", "no directory"}
                       ELSE {"writable"}) :
             /\ disk = "no directory" => download.obj = None
             /\ easyeda_data' = data
             /\ component_info' = info
             /\ kicadmodtree_available' = installed
             /\ ImportComponent(data, info, installed, download.obj, download.step,
                                disk, request[1], request[2], request[3])
    /\ pc' = "LibraryManager.import_component"
    /\ calls' = calls + 1
    /\ UNCHANGED <<wrlVars, decodeVars, converted, nameVars, apiVars, configVars, searchVars>>

\* the dialog's _check_existing_files: the symbol is looked for in the
\* library file under the description as it is, the footprint and the
\* models under names made with the lcsc_id "" when there is none;
\* None.replace raises AttributeError
CheckExistingFiles(info) ==
    LET lcsc_id     == DictGet(info, "lcsc_id", <<>>)
        package     == DictGet(info, "package", StrUnknown)
        symbol_name == DictGet(info, "description", DictGet(info, "name", <<>>))
        footprint_name == Fmt(lcsc_id) \o <<"_">> \o Sanitize(package)
    IN  IF package = NoneStr
        THEN [call |-> "_check_existing_files", raised |-> TRUE]
        ELSE [call           |-> "_check_existing_files",
              raised         |-> FALSE,
              symbol         |-> /\ symbol_lib_path # Absent
                                 /\ Contains(symbol_lib_path,
                                             <<"(", "symbol", "\"">> \o Fmt(symbol_name)
                                                \o <<"\"">>),
              footprint_name |-> footprint_name,
              footprint      |-> \E f \in footprint_lib_path : f.name = footprint_name,
              wrl            |-> (Fmt(lcsc_id) \o <<".wrl">>) \in model_3d_path,
              step           |-> (Fmt(lcsc_id) \o <<".step">>) \in model_3d_path]

\* the check the dialog makes before an import, for a component of the
\* project or one whose metadata has no lcsc_id
CallCheckExistingFiles ==
    /\ calls < MaxCalls
    /\ \E info \in LibraryInfos \cup {Without(SampleInfo, "lcsc_id")} :
          /\ component_info' = info
          /\ results' = CheckExistingFiles(info)
    /\ pc' = "_check_existing_files"
    /\ calls' = calls + 1
    /\ UNCHANGED <<wrlVars, decodeVars, easyeda_data, kicadmodtree_available, converted,
                   nameVars, symbol_lib_path, footprint_lib_path, model_3d_path,
                   sym_lib_table, fp_lib_table, saved, apiVars, configVars, searchVars>>

NextLibrary ==
    \/ ExistingProjectFiles
    \/ CallSaveToLibrary
    \/ CallImportComponent
    \/ CallCheckExistingFiles

SpecLibrary == Init /\ [][NextLibrary]_vars

(***************************************************************************)
(* Claims on the library files                                             *)
(***************************************************************************)
ImportCalled == pc = "LibraryManager.import_component"

SaveCalled == pc = "SymbolConverter.save_to_library"

\* the three parts were requested and import_component reports success
FullImport ==
    /\ ImportCalled
    /\ results.import_symbol /\ results.import_footprint /\ results.import_3d
    /\ results.success

\* the model element that refers to the WRL file of the component
WrlReference(info) ==
    <<"(", "model", "\"", "${KIPRJMOD}/libs/lcsc/3dmodels/">>
        \o Fmt(DictGet(info, "lcsc_id", <<>>)) \o <<".wrl", "\"">>

\* C18: after a full import the footprint file of the component holds the
\* reference to ${KIPRJMOD}/libs/lcsc/3dmodels/<lcsc_id>.wrl
C18_FootprintRefersToWrl ==
    FullImport =>
        \E f \in footprint_lib_path :
            /\ f.name = results.footprint.value
            /\ Contains(f.content, WrlReference(component_info))

\* save_to_library was called with append=True on a file that does not
\* begin with the header
InvalidHeaderCase ==
    /\ SaveCalled
    /\ results.append
    /\ results.exists
    /\ ~results.header

\* C19: save_to_library with append=True on a file without the header
\* returns True and leaves exactly the new document in the file
C19_InvalidHeaderOverwritten ==
    InvalidHeaderCase =>
        /\ ~results.raised
        /\ symbol_lib_path = SymbolConvert(easyeda_data, component_info).text

\* every call so far was a save with append=True that returned, the first
\* of them on a path without a file
OnlyAppendsFromNoFile ==
    /\ calls >= 1
    /\ Len(saved) = calls
    /\ \A k \in DOMAIN saved : saved[k].append

Occurrences(text, pattern) ==
    {i \in 1..(Len(text) - Len(pattern) + 1) :
        SubSeq(text, i, i + Len(pattern) - 1) = pattern}

\* how many elements are open before the token at position i
Depth(text, i) ==
    Cardinality({j \in 1..(i - 1) : text[j] = "("})
        - Cardinality({j \in 1..(i - 1) : text[j] = ")"})

\* where the symbol elements nested directly in the library element start
TopLevelSymbols(text) ==
    {i \in Occurrences(text, <<"(", "symbol">>) : Depth(text, i) = 1}

\* the k-th smallest element of a set of numbers
RECURSIVE Nth(_, _)
Nth(S, k) ==
    LET least == CHOOSE x \in S : \A y \in S : x <= y
    IN  IF k = 1 THEN least ELSE Nth(S \ {least}, k - 1)

\* C20: from no file, after saves with append=True of documents of convert
\* the library file begins with the one header it holds, its parentheses
\* are balanced, and the symbol elements nested directly in the library
\* element are the definitions of the saved documents, in the order saved
C20_LibraryWellFormed ==
    OnlyAppendsFromNoFile =>
        /\ StartsWith(symbol_lib_path, LibraryHeader)
        /\ Cardinality(Occurrences(symbol_lib_path, LibraryHeader)) = 1
        /\ Count(symbol_lib_path, "(") = Count(symbol_lib_path, ")")
        /\ Cardinality(TopLevelSymbols(symbol_lib_path)) = Len(saved)
        /\ \A k \in DOMAIN saved :
              LET start      == Nth(TopLevelSymbols(symbol_lib_path), k)
                  symbol_def ==
                      RStrip(SymbolDef(SymbolConvert(saved[k].data, saved[k].info).text))
              IN  SubSeq(symbol_lib_path, start, start + Len(symbol_def) - 1) = symbol_def

\* the name of the symbol element that starts at position i
SymbolNameAt(text, i) == SubSeq(text, i + 3, Find(text, <<"\"">>, i + 3))

\* no two symbol elements nested directly in the library element of the
\* file carry the same name
OneDefinitionPerName(file) ==
    file # Absent =>
        \A i, j \in TopLevelSymbols(file) :
            i # j => SymbolNameAt(file, i) # SymbolNameAt(file, j)

\* C21: import_component keeps the symbol library at one top-level symbol
\* definition per symbol name: called on a project whose library has at most
\* one definition per name, it leaves a library that has at most one per
\* name, the import of a component that is already there included
C21_OneDefinitionPerName ==
    [][(/\ pc' = "LibraryManager.import_component"
        /\ calls' = calls + 1
        /\ OneDefinitionPerName(symbol_lib_path))
          => OneDefinitionPerName(symbol_lib_path')]_vars

\* results[part] is None
IsNone(part) == part.raised

\* the message of a part that was requested and has no result
ErrorOf(requested, part, message) ==
    IF requested /\ IsNone(part) THEN <<message>> ELSE <<>>

\* C22: import_component attempts the requested parts in the order symbol,
\* footprint, 3D model and then updates the tables: every requested part
\* has a result or its message in results['errors'], the messages stand in
\* that order, both tables are there afterwards whatever failed, and
\* results['success'] is true exactly when no requested part is None
C22_PartsInOrderThenTables ==
    ImportCalled =>
        /\ results.errors =
              ErrorOf(results.import_symbol, results.symbol, "Symbol import failed")
                 \o ErrorOf(results.import_footprint, results.footprint,
                            "Footprint import failed")
                 \o ErrorOf(results.import_3d, results.model_3d,
                            "3D model import failed")
        /\ sym_lib_table # Absent
        /\ fp_lib_table # Absent
        /\ results.success <=>
              /\ (results.import_symbol => ~IsNone(results.symbol))
              /\ (results.import_footprint => ~IsNone(results.footprint))
              /\ (results.import_3d => ~IsNone(results.model_3d))

\* the symbol part failed and the two parts after it were carried out
C22_Witness ==
    /\ ImportCalled
    /\ results.import_symbol /\ results.import_footprint /\ results.import_3d
    /\ IsNone(results.symbol)
    /\ ~IsNone(results.footprint)
    /\ ~IsNone(results.model_3d)
    /\ results.errors = <<"Symbol import failed">>
    /\ \E f \in footprint_lib_path : f.name = results.footprint.value
    /\ model_3d_path # {}
    /\ ~results.success

\* C23: when import_component reports success every requested part left
\* its artifact: the library file holds the symbol under the returned name,
\* footprints.pretty holds the returned footprint, and results['model_3d']
\* names at least one model file, each of them written to 3dmodels
C23_SuccessMeansArtifacts ==
    (ImportCalled /\ results.success) =>
        /\ results.import_symbol =>
              /\ symbol_lib_path # Absent
              /\ Contains(symbol_lib_path,
                          <<"(", "symbol", "\"">> \o results.symbol.value \o <<"\"">>)
        /\ results.import_footprint =>
              \E f \in footprint_lib_path : f.name = results.footprint.value
        /\ results.import_3d =>
              /\ results.model_3d.value # {}
              /\ \A model \in results.model_3d.value : model.path \in model_3d_path

\* the table holds exactly one entry whose uri is lib_path
OneEntryFor(table, lib_path) ==
    table # Absent /\ Count(table, lib_path) = 1

\* C24: once _update_library_tables has run on a project, a further run
\* leaves sym-lib-table and fp-lib-table as they were, each with exactly one
\* entry for the library of the plugin
C24_RegistrationIdempotent ==
    [][(/\ pc = "LibraryManager.import_component"
        /\ pc' = "LibraryManager.import_component"
        /\ calls' = calls + 1)
          => /\ sym_lib_table' = sym_lib_table
             /\ fp_lib_table' = fp_lib_table
             /\ OneEntryFor(sym_lib_table',
                            "${KIPRJMOD}/libs/lcsc/symbols/lcsc_imported.kicad_sym")
             /\ OneEntryFor(fp_lib_table', "${KIPRJMOD}/libs/lcsc/footprints.pretty")]_vars

\* the library nickname of the Footprint property of the symbol that stands
\* last in the file: what is written between the opening quote of the value
\* and the colon
FootprintNicknameIn(file) ==
    LET properties == Occurrences(file, <<"Footprint", "\"", "\"">>)
        property   == CHOOSE i \in properties : \A j \in properties : j <= i
    IN  SubSeq(file, property + 3, Find(file, <<":">>, property + 3))

\* import_component returned the name of the symbol it wrote
SymbolImported ==
    /\ ImportCalled
    /\ results.import_symbol
    /\ ~IsNone(results.symbol)
    /\ Contains(symbol_lib_path, <<"Footprint", "\"", "\"">>)

\* C25: after import_component has written a symbol, fp-lib-table holds a
\* lib entry named as the library nickname of the Footprint property of
\* that symbol
C25_FootprintLibraryRegistered ==
    SymbolImported =>
        /\ fp_lib_table # Absent
        /\ Contains(fp_lib_table,
                    <<"(", "lib", "(", "name", "\"">>
                       \o FootprintNicknameIn(symbol_lib_path) \o <<"\"", ")">>)

\* _check_existing_files was called and returned
CheckReturned == pc = "_check_existing_files" /\ ~results.raised

\* the name after "nickname:" in the value of the Footprint property
NameInReference(reference) ==
    SubSeq(reference, Find(reference, <<":">>, 1) + 2, Len(reference))

C27_ExistingSymbolReported ==
    (CheckReturned /\ ~GetSymbolName(component_info).raised) =>
        (results.symbol <=>
            /\ symbol_lib_path # Absent
            /\ Contains(symbol_lib_path,
                        <<"(", "symbol", "\"">> \o GetSymbolName(component_info).value
                           \o <<"\"">>))

(***************************************************************************)
(* LCSCAPIClient: the rate limit of one client used by a single caller.    *)
(* Time is in seconds; time.sleep returns when the time asked for has      *)
(* passed or later, and the lines between the reading of the clock and the *)
(* sending of the request take no time.                                    *)
(***************************************************************************)
REQUEST_DELAY == 2

MaxRequests == 3

MaxIdle == 3

\* a rate limit that never sleeps
RateLimitNoSleep(t, last, oversleep) == t

\* _rate_limit called at the time t: the time at which it returns and which
\* it stores in last_request_time; oversleep is how much longer than asked
\* time.sleep took
RateLimit(t, last, oversleep) ==
    LET elapsed == t - last
    IN  IF elapsed < REQUEST_DELAY THEN t + (REQUEST_DELAY - elapsed) + oversleep ELSE t

\* _make_request: the caller comes idle seconds after the call before
\* returned, the request is sent when _rate_limit returns, and the call
\* returns duration seconds later with the JSON or with LCSCAPIError
CallMakeRequest ==
    /\ Len(requests) < MaxRequests
    /\ \E idle \in 0..MaxIdle, oversleep \in 0..1, duration \in 0..1 :
          LET Sent(start) ==
                /\ last_request_time' = start
                /\ requests' = Append(requests, [function |-> "_make_request",
                                                 called   |-> now + idle,
                                                 start    |-> start])
                /\ now' = start + duration
          IN  Sent(RateLimit(now + idle, last_request_time, oversleep))
    /\ pc' = "_make_request"
    /\ UNCHANGED <<wrlVars, decodeVars, convertVars, nameVars, libVars, configVars,
                   searchVars>>

\* download_file, which returns True or False
CallDownloadFile ==
    /\ Len(requests) < MaxRequests
    /\ \E idle \in 0..MaxIdle, oversleep \in 0..1, duration \in 0..1 :
          LET Sent(start) ==
                /\ last_request_time' = start
                /\ requests' = Append(requests, [function |-> "download_file",
                                                 called   |-> now + idle,
                                                 start    |-> start])
                /\ now' = start + duration
          IN  Sent(RateLimit(now + idle, last_request_time, oversleep))
    /\ pc' = "download_file"
    /\ UNCHANGED <<wrlVars, decodeVars, convertVars, nameVars, libVars, configVars,
                   searchVars>>

NextApi ==
    \/ CallMakeRequest
    \/ CallDownloadFile

SpecApi == Init /\ [][NextApi]_vars

\* C28: any two consecutive requests of the client start at least
\* REQUEST_DELAY seconds apart
C28_RequestsDelayed ==
    \A k \in 1..(Len(requests) - 1) :
        requests[k + 1].start - requests[k].start >= REQUEST_DELAY

\* a request was called less than REQUEST_DELAY after the start of the one
\* before, which another function had sent, and started when the delay had
\* passed
C28_Witness ==
    \E k \in 1..(Len(requests) - 1) :
        /\ requests[k + 1].function # requests[k].function
        /\ requests[k + 1].called - requests[k].start < REQUEST_DELAY
        /\ requests[k + 1].start - requests[k].start = REQUEST_DELAY

(***************************************************************************)
(* Config: load and get.  A value of the configuration is the text JSON    *)
(* writes for it, and None is "null".                                      *)
(***************************************************************************)
DEFAULT_CONFIG ==
    [key \in {"library_path", "symbol_lib_name", "footprint_lib_name", "model_3d_path",
              "api_timeout", "download_timeout", "cache_enabled", "cache_expiry_days"} |->
        CASE key = "library_path"       -> "\"libs/lcsc\""
          [] key = "symbol_lib_name"    -> "\"lcsc_imported.kicad_sym\""
          [] key = "footprint_lib_name" -> "\"footprints.pretty\""
          [] key = "model_3d_path"      -> "\"3dmodels\""
          [] key = "api_timeout"        -> "30"
          [] key = "download_timeout"   -> "60"
          [] key = "cache_enabled"      -> "true"
          [] key = "cache_expiry_days"  -> "7"]

\* the configuration file as the plugin finds it when there is one: a file
\* that cannot be read or is not JSON, or a JSON object with some of the
\* keys, each with the value the plugin would give it
ExistingConfigFile ==
    /\ pc = "idle"
    /\ \/ config_path' = [exists |-> TRUE, readable |-> FALSE]
       \/ \E keys \in SUBSET DOMAIN DEFAULT_CONFIG :
             config_path' = [exists   |-> TRUE,
                             readable |-> TRUE,
                             content  |-> [key \in keys |-> DEFAULT_CONFIG[key]]]
    /\ pc' = "config file"
    /\ UNCHANGED <<wrlVars, decodeVars, convertVars, nameVars, libVars, apiVars, config,
                   got, searchVars>>

\* Config.load: json.load of the file that exists; the defaults, saved to
\* the file, when there is none; the defaults when the reading raises
CallLoad ==
    /\ pc \in {"idle", "config file"}
    /\ IF ~config_path.exists
       THEN /\ config' = DEFAULT_CONFIG
            /\ config_path' = [exists |-> TRUE, readable |-> TRUE,
                               content |-> DEFAULT_CONFIG]
       ELSE /\ config' = IF config_path.readable THEN config_path.content
                         ELSE DEFAULT_CONFIG
            /\ UNCHANGED config_path
    /\ pc' = "Config.load"
    /\ UNCHANGED <<wrlVars, decodeVars, convertVars, nameVars, libVars, apiVars, got,
                   searchVars>>

\* Config.get(key), the default left at None
CallGet ==
    /\ pc \in {"Config.load", "Config.get"}
    /\ \E key \in DOMAIN DEFAULT_CONFIG :
          got' = [key |-> key, value |-> DictGet(config, key, "null")]
    /\ pc' = "Config.get"
    /\ UNCHANGED <<wrlVars, decodeVars, convertVars, nameVars, libVars, apiVars,
                   config_path, config, searchVars>>

NextConfig ==
    \/ ExistingConfigFile
    \/ CallLoad
    \/ CallGet

SpecConfig == Init /\ [][NextConfig]_vars

\* C29: after Config.load, get(k) is not None for every key k of
\* DEFAULT_CONFIG, whatever the configuration file was
C29_EveryDefaultKeyDefined ==
    /\ pc \in {"Config.load", "Config.get"} =>
          \A key \in DOMAIN DEFAULT_CONFIG : DictGet(config, key, "null") # "null"
    /\ pc = "Config.get" => got.value # "null"

(***************************************************************************)
(* The search dialog: Search, Load More, the click on a column header and  *)
(* the selection of a row.  A row of the list control is the texts of its  *)
(* columns; a formatted number is the list of its parts.                   *)
(***************************************************************************)
MaxPages == 2

\* get_sort_key of _sort_results.  Strings is the strings of the results in
\* the order Python compares them, and a string stands by its place there;
\* Lower is str.lower
SortKey(result, col) ==
    LET Strings == <<"", "Basic", "C1", "C2", "Extended", "R", "a", "b", "r">>
        Lower(str) == CASE str = "Basic"    -> "basic"
                        [] str = "C1"       -> "c1"
                        [] str = "C2"       -> "c2"
                        [] str = "Extended" -> "extended"
                        [] str = "R"        -> "r"
                        [] OTHER            -> str
        Place(str) == CHOOSE i \in DOMAIN Strings : Strings[i] = str
    IN  CASE col = 0 -> Place(DictGet(DictGet(result, "lcsc", EmptyDict), "number", ""))
          [] col = 1 -> Place(Lower(DictGet(result, "title", "")))
          [] col = 2 -> Place(Lower(DictGet(result, "package", "")))
          [] col = 3 -> DictGet(result, "price", 0)
          [] col = 4 -> DictGet(result, "stockCount", 0)
          [] col = 5 -> LET lib_type == DictGet(result, "libraryType", "")
                        IN  IF lib_type = "Basic" THEN 0
                            ELSE IF lib_type = "Extended" THEN 1 ELSE 2

\* list.sort(key=get_sort_key, reverse=reverse): results with equal keys
\* keep their order
RECURSIVE SortResults(_, _, _)
SortResults(found, col, reverse) ==
    LET RECURSIVE Insert(_, _)
        Insert(sorted, result) ==
          IF sorted = <<>> THEN <<result>>
          ELSE IF (IF reverse THEN SortKey(Head(sorted), col) < SortKey(result, col)
                   ELSE SortKey(Head(sorted), col) > SortKey(result, col))
               THEN <<result>> \o sorted
               ELSE <<Head(sorted)>> \o Insert(Tail(sorted), result)
    IN  IF found = <<>> THEN <<>>
        ELSE Insert(SortResults(SubSeq(found, 1, Len(found) - 1), col, reverse),
                    found[Len(found)])

\* the row _populate_results_list makes of a result
Row(result) ==
    LET price       == DictGet(result, "price", 0)
        stock_count == DictGet(result, "stockCount", 0)
    IN  [lcsc_id      |-> DictGet(DictGet(result, "lcsc", EmptyDict), "number",
                                  DictGet(result, "uuid", "")),
         title        |-> DictGet(result, "title", "Unknown"),
         package      |-> DictGet(result, "package", ""),
         price        |-> IF price > 0 THEN <<"$", price, ".4f">> ELSE <<"-">>,
         stock        |-> IF stock_count > 10000 THEN <<stock_count \div 1000, "k+">>
                          ELSE IF stock_count > 0 THEN <<stock_count>>
                          ELSE <<"0">>,
         library_type |-> DictGet(result, "libraryType", "")]

\* _populate_results_list: one row for each result, each put under the rows
\* that are there
PopulateResultsList(rows, found) ==
    rows \o [i \in DOMAIN found |-> Row(found[i])]

\* _perform_search with what advanced_search did: it raised LCSCAPIError,
\* or returned the list response
PerformSearch(found, raised, response) ==
    IF raised \/ response = <<>>
    THEN /\ results_list' = <<>>
         /\ search_results' = found
         /\ UNCHANGED load_more_btn
    ELSE /\ search_results' = found \o response
         /\ results_list' = PopulateResultsList(<<>>, found \o response)
         /\ load_more_btn' = (Len(response) >= 20)

\* what the search returns: a failure, nothing, a page that is not full,
\* and a full page; one result has no lcsc number
Responses ==
    LET basic    == [lcsc |-> [number |-> "C2"], title |-> "R", package |-> "b",
                     price |-> 1, stockCount |-> 12000, libraryType |-> "Basic"]
        extended == [lcsc |-> [number |-> "C1"], title |-> "a", package |-> "a",
                     price |-> 2, stockCount |-> 0, libraryType |-> "Extended"]
        other    == [uuid |-> "u1", title |-> "b", price |-> 0, stockCount |-> 7]
    IN  { [raised |-> TRUE, list |-> <<>>],
          [raised |-> FALSE, list |-> <<>>],
          [raised |-> FALSE, list |-> <<basic, extended, other>>],
          [raised |-> FALSE,
           list   |-> [i \in 1..20 |-> IF i % 2 = 1 THEN basic ELSE extended]] }

\* _on_search; without a search term it shows a message and returns
OnSearch ==
    /\ \E search_text \in {"", "r"}, response \in Responses :
          IF search_text = ""
          THEN UNCHANGED <<search_results, results_list, current_page, load_more_btn>>
          ELSE /\ current_page' = 1
               /\ PerformSearch(<<>>, response.raised, response.list)
    /\ pc' = "_on_search"
    /\ UNCHANGED <<wrlVars, decodeVars, convertVars, nameVars, libVars, apiVars,
                   configVars, sort_column, sort_reverse, selected_component>>

\* _on_load_more, when the button is enabled
OnLoadMore ==
    /\ load_more_btn
    /\ current_page < MaxPages
    /\ current_page' = current_page + 1
    /\ \E response \in Responses :
          PerformSearch(search_results, response.raised, response.list)
    /\ pc' = "_on_load_more"
    /\ UNCHANGED <<wrlVars, decodeVars, convertVars, nameVars, libVars, apiVars,
                   configVars, sort_column, sort_reverse, selected_component>>

\* _on_column_click
OnColumnClick ==
    /\ \E col \in 0..5 :
          LET reverse == IF sort_column = col THEN ~sort_reverse ELSE FALSE
              Shown(sorted) ==
                /\ search_results' = sorted
                /\ results_list' = PopulateResultsList(<<>>, sorted)
          IN  /\ sort_column' = col
              /\ sort_reverse' = reverse
              /\ Shown(SortResults(search_results, col, reverse))
    /\ pc' = "_on_column_click"
    /\ UNCHANGED <<wrlVars, decodeVars, convertVars, nameVars, libVars, apiVars,
                   configVars, current_page, load_more_btn, selected_component>>

\* _on_result_selected for the first or the last row of the list
OnResultSelected ==
    /\ results_list # <<>>
    /\ \E index \in {0, Len(results_list) - 1} :
          selected_component' =
              IF index < 0 \/ index >= Len(search_results) THEN selected_component
              ELSE [index |-> index, result |-> search_results[index + 1]]
    /\ pc' = "_on_result_selected"
    /\ UNCHANGED <<wrlVars, decodeVars, convertVars, nameVars, libVars, apiVars,
                   configVars, search_results, results_list, current_page,
                   load_more_btn, sort_column, sort_reverse>>

NextSearch ==
    \/ OnSearch
    \/ OnLoadMore
    \/ OnColumnClick
    \/ OnResultSelected

SpecSearch == Init /\ [][NextSearch]_vars

\* C30: after every event the list shows one row for each element of
\* search_results, in the same order, and the component a selection picks
\* is the one shown in the selected row
C30_RowsAreSearchResults ==
    /\ Len(results_list) = Len(search_results)
    /\ \A i \in DOMAIN results_list : results_list[i] = Row(search_results[i])
    /\ pc = "_on_result_selected" =>
          results_list[selected_component.index + 1] = Row(selected_component.result)

====
